---- MODULE Spec2Model ----
(***************************************************************************)
(* Bluetooth HID macro pad: the input dispatcher (input_handler.py), the   *)
(* command queue, the keyboard report state machine and the BlueZ HID      *)
(* profile transport (hid_service.py), the mapping store                   *)
(* (config_manager.py, web_server.py) and the two entry points (main.py,   *)
(* main_gui_app.py).                                                       *)
(*                                                                         *)
(* Python indexes the 8-byte report 0..7; the tuples here are indexed      *)
(* 1..8, so report_state[0] is rs[1] and the key slots 2..7 are 3..8.      *)
(***************************************************************************)
EXTENDS Integers, Sequences, FiniteSets, TLC

(***************************************************************************)
(* Bounds of the model.                                                    *)
(***************************************************************************)
\* input events dispatched by the input thread in one run
MaxEvents == 2
\* NewConnection calls made by the Bluetooth stack in one run
MaxConns == 2
\* administrative update calls in one run
MaxUpdates == 2
\* device handles the input thread opens in one run
MaxOpens == 3

(***************************************************************************)
(* keycodes.py                                                             *)
(***************************************************************************)
MOD_NONE == 0
MOD_LEFT_CTRL == 1
MOD_LEFT_SHIFT == 2

\* The part of NAME_TO_CODE the model's mappings can name: <<mask, code>>.
NAME_TO_CODE ==
  [n \in {"A", "B", "C", "D", "E", "F", "G",
          "LEFT_CTRL", "LEFT_SHIFT", "VOLUME_UP", "VOLUME_DOWN", "NONE"} |->
     CASE n = "A" -> <<MOD_NONE, 4>>
       [] n = "B" -> <<MOD_NONE, 5>>
       [] n = "C" -> <<MOD_NONE, 6>>
       [] n = "D" -> <<MOD_NONE, 7>>
       [] n = "E" -> <<MOD_NONE, 8>>
       [] n = "F" -> <<MOD_NONE, 9>>
       [] n = "G" -> <<MOD_NONE, 10>>
       [] n = "LEFT_CTRL" -> <<MOD_LEFT_CTRL, 0>>
       [] n = "LEFT_SHIFT" -> <<MOD_LEFT_SHIFT, 0>>
       [] n = "VOLUME_UP" -> <<MOD_NONE, 128>>
       [] n = "VOLUME_DOWN" -> <<MOD_NONE, 129>>
       [] n = "NONE" -> <<MOD_NONE, 0>>]

\* str.upper() on the key names that occur in the model.
Upper(s) ==
  CASE s = "a" -> "A"
    [] s = "left_ctrl" -> "LEFT_CTRL"
    [] s = "none" -> "NONE"
    [] OTHER -> s

\* Entries of a key list that are not strings: "<5>" stands for the JSON
\* number 5, which is truthy and has no method upper.
NonStringKeys == {"<5>"}

\* key_name.upper() raises AttributeError
UpperRaises(key_name) == key_name \in NonStringKeys

\* KeycodeMap.get_codes for an unknown name gives the codes of "A".
get_codes_first(key_name) ==
  IF Upper(key_name) \in DOMAIN NAME_TO_CODE
  THEN NAME_TO_CODE[Upper(key_name)]
  ELSE NAME_TO_CODE["A"]

\* KeycodeMap.get_codes: dict.get with the default (MOD_NONE, 0x00).
get_codes(key_name) ==
  IF Upper(key_name) \in DOMAIN NAME_TO_CODE
  THEN NAME_TO_CODE[Upper(key_name)]
  ELSE <<MOD_NONE, 0>>

(***************************************************************************)
(* Bytes.                                                                  *)
(***************************************************************************)
RECURSIVE BitOr(_, _)
\* a | b on non-negative integers
BitOr(a, b) ==
  IF a = 0 THEN b
  ELSE IF b = 0 THEN a
  ELSE (IF a % 2 = 1 \/ b % 2 = 1 THEN 1 ELSE 0) + 2 * BitOr(a \div 2, b \div 2)

\* A release that clears the whole modifier byte.
BitClearAll(a, b) == 0

\* A release that leaves the modifier byte as it is.
BitKeep(a, b) == a

RECURSIVE BitAndNot(_, _)
\* a & ~b on non-negative integers
BitAndNot(a, b) ==
  IF a = 0 THEN 0
  ELSE (IF a % 2 = 1 /\ b % 2 = 0 THEN 1 ELSE 0) + 2 * BitAndNot(a \div 2, b \div 2)

\* bytearray([0x00] * 8)
EmptyReport == <<0, 0, 0, 0, 0, 0, 0, 0>>

(***************************************************************************)
(* HidService._update_report_for_keys                                      *)
(***************************************************************************)
RECURSIVE ScanPress(_, _, _, _)
\* The press loop over range(2, 8): stops at the slot holding the code,
\* remembers the first empty slot seen before that.
ScanPress(rs, code, i, first_empty_slot) ==
  IF i > 8 THEN [is_present |-> FALSE, first_empty_slot |-> first_empty_slot]
  ELSE IF rs[i] = code
       THEN [is_present |-> TRUE, first_empty_slot |-> first_empty_slot]
  ELSE ScanPress(rs, code, i + 1,
                 IF rs[i] = 0 /\ first_empty_slot = -1 THEN i ELSE first_empty_slot)

\* A press that, finding no empty slot, overwrites the last slot.
PressCodeOverwrite(rs, code) ==
  LET sc == ScanPress(rs, code, 3, -1) IN
  IF sc.is_present THEN rs
  ELSE IF sc.first_empty_slot # -1 THEN [rs EXCEPT ![sc.first_empty_slot] = code]
  ELSE [rs EXCEPT ![8] = code]

\* A press that stores the code in the last empty slot.
PressCodeLastEmpty(rs, code) ==
  LET empty == {i \in 3..8 : rs[i] = 0} IN
  IF empty = {} \/ \E i \in 3..8 : rs[i] = code THEN rs
  ELSE [rs EXCEPT ![CHOOSE i \in empty : \A j \in empty : i >= j] = code]

\* A press that stores the code in the first empty slot without looking
\* whether a slot holds it already.
PressCodeAlways(rs, code) ==
  LET empty == {i \in 3..8 : rs[i] = 0} IN
  IF empty = {} THEN rs
  ELSE [rs EXCEPT ![CHOOSE i \in empty : \A j \in empty : i <= j] = code]

\* Press of a usage code: stored in the first empty slot unless present or full.
PressCode(rs, code) ==
  LET sc == ScanPress(rs, code, 3, -1) IN
  IF ~sc.is_present /\ sc.first_empty_slot # -1
  THEN [rs EXCEPT ![sc.first_empty_slot] = code]
  ELSE rs

RECURSIVE ReleaseScan(_, _, _)
\* The release loop over range(2, 8): zeroes the first slot equal to the code.
ReleaseScan(rs, code, i) ==
  IF i > 8 THEN rs
  ELSE IF rs[i] = code THEN [rs EXCEPT ![i] = 0]
  ELSE ReleaseScan(rs, code, i + 1)

\* A release that zeroes the slot and moves the keys behind it up.
ReleaseCodeRepack(rs, code) ==
  LET kept == SelectSeq(SubSeq(rs, 3, 8), LAMBDA c : c # 0 /\ c # code)
  IN [i \in 1..8 |-> IF i <= 2 THEN rs[i]
                     ELSE IF i - 2 <= Len(kept) THEN kept[i - 2] ELSE 0]

RECURSIVE ReleaseScanShort(_, _, _)
\* A release loop over range(2, 7): it never looks at the last slot.
ReleaseScanShort(rs, code, i) ==
  IF i > 7 THEN rs
  ELSE IF rs[i] = code THEN [rs EXCEPT ![i] = 0]
  ELSE ReleaseScanShort(rs, code, i + 1)

\* Release with the short loop, in place of the loop of the source.
ReleaseCodeShort(rs, code) == ReleaseScanShort(rs, code, 3)

\* Release of a usage code: the loop of the source, from the first slot.
ReleaseCode(rs, code) == ReleaseScan(rs, code, 3)

\* One iteration of the loop over key_names_list.
UpdateReportForKey(rs, key_name, press) ==
  IF key_name = "" \/ Upper(key_name) = "NONE" THEN rs
  ELSE
    LET codes == get_codes(key_name)
        mod_mask_for_key == codes[1]
        key_code_for_key == codes[2]
        r1 == IF mod_mask_for_key # MOD_NONE
              THEN IF press
                   THEN [rs EXCEPT ![1] = BitOr(rs[1], mod_mask_for_key)]
                   ELSE [rs EXCEPT ![1] = BitAndNot(rs[1], mod_mask_for_key)]
              ELSE rs
    IN IF key_code_for_key # 0
       THEN IF press THEN PressCode(r1, key_code_for_key)
                     ELSE ReleaseCode(r1, key_code_for_key)
       ELSE r1

\* the position of the first entry at which the loop over key_names_list
\* raises (key_name.upper() on a non-string), or 0
RaisesAt(key_names_list) ==
  LET bad == {i \in DOMAIN key_names_list : UpperRaises(key_names_list[i])}
  IN IF bad = {} THEN 0 ELSE CHOOSE i \in bad : \A j \in bad : i <= j

RECURSIVE UpdateReportFrom(_, _, _, _)
\* The loop over key_names_list from position i; it ends at the entry that
\* raises, with the entries before it applied.
UpdateReportFrom(rs, key_names_list, press, i) ==
  IF i > Len(key_names_list) \/ i = RaisesAt(key_names_list) THEN rs
  ELSE UpdateReportFrom(UpdateReportForKey(rs, key_names_list[i], press),
                        key_names_list, press, i + 1)

\* _update_report_for_keys(key_names_list, press) applied to report rs.
update_report_for_keys(rs, key_names_list, press) ==
  UpdateReportFrom(rs, key_names_list, press, 1)

(***************************************************************************)
(* input_handler.py and config_manager.py: the static tables.              *)
(***************************************************************************)
\* evdev.ecodes used by EVENT_MAPPINGS
EV_SYN == 0
EV_KEY == 1
EV_REL == 2
REL_DIAL == 7
KEY_ENTER == 28
KEY_1 == 2

\* InputHandler.EVENT_TUPLE_TO_ACTION, for the triggers the model fires.
EVENT_TUPLE_TO_ACTION(event_tuple) ==
  CASE event_tuple = <<EV_REL, REL_DIAL, 1>> -> "knob_cw"
    [] event_tuple = <<EV_KEY, KEY_ENTER, 1>> -> "front_button_press"
    [] event_tuple = <<EV_KEY, KEY_ENTER, 0>> -> "front_button_release"
    [] event_tuple = <<EV_KEY, KEY_1, 1>> -> "top_button_1_press"
    [] event_tuple = <<EV_KEY, KEY_1, 0>> -> "top_button_1_release"
    [] OTHER -> "None"

\* ConfigManager._get_default_config, for the actions those triggers name.
DefaultConfig ==
  [a \in {"knob_cw", "front_button_press", "front_button_release",
          "top_button_1_press", "top_button_1_release"} |->
     CASE a = "knob_cw" -> [type |-> "key_tap", keys |-> <<"VOLUME_UP">>]
       [] a = "front_button_press" -> [type |-> "key_press", keys |-> <<"LEFT_CTRL">>]
       [] a = "front_button_release" -> [type |-> "key_release", keys |-> <<"LEFT_CTRL">>]
       [] a = "top_button_1_press" -> [type |-> "key_tap", keys |-> <<"A">>]
       [] a = "top_button_1_release" -> [type |-> "none", keys |-> <<>>]]

(***************************************************************************)
(* State.                                                                  *)
(***************************************************************************)
VARIABLES
  \* HidService
  report_state,              \* self.report_state
  last_sent_report_state,    \* self.last_sent_report_state
  active_connection_profile, \* "None" or "profile" (the one HidProfile object)
  profile_instance,          \* self.profile_instance: "None" or "profile"
  stop_requested_event,      \* threading.Event
  \* HidProfile
  device_path,               \* "None" or the host's object path
  interrupt_fd,              \* -1 or the descriptor
  interrupt_io_watch_id,     \* 0 or the reactor source id
  \* operating system, reactor and BlueZ
  fd_closes,                 \* descriptor taken |-> number of os.close calls on it
  watches,                   \* source ids of the io watches the reactor holds
  wire,                      \* reports written to the descriptor taken last
  bluez_registered,          \* BlueZ holds the profile registration
  mainloop_quit,             \* mainloop.quit() was called on the running loop
  tick_scheduled,            \* the 20 ms timeout source exists
  \* command queue
  command_queue,             \* queue.Queue of [id, type, keys]
  n_put,                     \* commands put so far (their ids)
  put_log,                   \* every command put, in order, with its event's number
  applied_log,               \* commands applied to report_state, in order
  conn_at,                   \* n_put when the last descriptor was taken
  \* threads
  hid_pc,                    \* HidService.run
  drain_pc,                  \* _command_queue_processor_cb
  processed_command,         \* its local flag
  input_pc,                  \* process_event: <<>>, or <<keys>> of the release still to put
  n_events,                  \* events dispatched
  dispatch_log,              \* per event dispatched: the event and the entry it found
  app_pc,                    \* main thread of main.py / main_gui_app.py
  exit_code,                 \* "running" or the process's exit status
  start_failed,              \* run() returned from a startup failure
  \* mapping store and dispatcher
  config,                    \* ConfigManager.config
  mappings,                  \* InputHandler.mappings
  admin_pc,                  \* set_mappings: "idle" or "reload"
  n_updates,                 \* update calls made
  \* what the last handler did
  round_trip,                \* the Press(k), Release(k) pair applied last, if any
  rollover,                  \* presses dropped for want of a slot
  last_cmd,                  \* the command applied last and the report it found
  last_cleanup,              \* what cleanup_connection_resources found, if it ran
  \* InputHandler.run
  src_pc,                    \* position in run()
  src_stop,                  \* self.stop_event
  devices_map,               \* self.devices_map: the open handles
  handles,                   \* handle opened |-> [path, number of close calls]
  avail,                     \* device paths that exist and are readable now
  waited,                    \* seconds waited since stop_event was last examined
  opened_after_stop,         \* a handle was opened with stop_event already set
  \* ConfigManager and the threads calling it
  store_lock,                \* self.lock: "free" or the thread holding it
  load_pc,                   \* the constructing thread: ConfigManager(), then InputHandler()
  config_file,               \* the file at config_path: its state and, if valid, its table
  posted_mappings,           \* the argument of update_mappings while the call runs, else <<>>
  get_pc,                    \* a second caller of get_mappings: "idle" or "locked"
  got                        \* the table that caller obtained last, else <<>>

hidvars == <<report_state, last_sent_report_state, active_connection_profile,
             device_path, interrupt_fd, interrupt_io_watch_id, fd_closes,
             watches, wire, last_cleanup>>
svcvars == <<profile_instance, stop_requested_event, bluez_registered,
             mainloop_quit, tick_scheduled, hid_pc, start_failed>>
queuevars == <<command_queue, n_put, put_log>>
drainvars == <<drain_pc, processed_command, applied_log>>
inputvars == <<input_pc, n_events, dispatch_log>>
srcvars == <<src_pc, src_stop, devices_map, handles, avail, waited, opened_after_stop>>
cfgvars == <<store_lock, load_pc, config_file, posted_mappings, get_pc, got>>
newvars == <<rollover, last_cmd, srcvars, cfgvars>>
appvars == <<app_pc, exit_code>>
storevars == <<config, mappings, admin_pc, n_updates>>
vars == <<hidvars, svcvars, queuevars, drainvars, inputvars, appvars,
          storevars, conn_at, round_trip, newvars>>

\* No cleanup ran in the last handler.
NoCleanup == [ran |-> FALSE, connected |-> FALSE, fd |-> -1, watch |-> 0,
              write_failed |-> FALSE, request |-> ""]

\* No single-key Press is being followed.
NoRoundTrip == [key |-> "", before |-> EmptyReport, done |-> FALSE]

\* No command was applied yet, or the report was reset since.
NoCmd == [type |-> "", keys |-> <<>>, before |-> EmptyReport]

\* No press was dropped.
NoRollover == [dropped |-> {}, fresh |-> FALSE, before |-> EmptyReport]

\* InputHandler.device_paths: the knob and the buttons
DevicePaths == {"knob", "buttons"}

\* self.config = {} and self.mappings = {}: the table without entries
NoConfig == [a \in {} |-> [type |-> "none", keys |-> <<>>]]

\* HidService.__init__, HidProfile.__init__ and the fields of InputHandler
\* and ConfigManager that do not depend on the configuration file
InitCommon ==
  /\ report_state = EmptyReport
  /\ last_sent_report_state = EmptyReport
  /\ active_connection_profile = "None"
  /\ profile_instance = "None"
  /\ stop_requested_event = FALSE
  /\ device_path = "None"
  /\ interrupt_fd = -1
  /\ interrupt_io_watch_id = 0
  /\ fd_closes = <<>>
  /\ watches = {}
  /\ wire = <<>>
  /\ bluez_registered = FALSE
  /\ mainloop_quit = FALSE
  /\ tick_scheduled = FALSE
  /\ command_queue = <<>>
  /\ n_put = 0
  /\ applied_log = <<>>
  /\ conn_at = 0
  /\ hid_pc = "not_started"
  /\ drain_pc = "idle"
  /\ processed_command = FALSE
  /\ input_pc = <<>>
  /\ n_events = 0
  /\ app_pc = "init"
  /\ exit_code = "running"
  /\ start_failed = FALSE
  /\ admin_pc = "idle"
  /\ n_updates = 0
  /\ last_cleanup = NoCleanup
  /\ round_trip = NoRoundTrip
  /\ put_log = <<>>
  /\ dispatch_log = <<>>
  /\ rollover = NoRollover
  /\ last_cmd = NoCmd
  /\ src_pc = "not_started"
  /\ src_stop = FALSE
  /\ devices_map = {}
  /\ handles = <<>>
  /\ avail = DevicePaths
  /\ waited = 0
  /\ opened_after_stop = FALSE
  /\ store_lock = "free"
  /\ posted_mappings = <<>>
  /\ get_pc = "idle"
  /\ got = <<>>

\* The state after construction from a configuration file that holds the
\* default table: ConfigManager.load_config has read it and
\* InputHandler.load_mappings has copied it.
Init ==
  /\ InitCommon
  /\ config = DefaultConfig
  /\ mappings = DefaultConfig
  /\ load_pc = "done"
  /\ config_file = [state |-> "valid", table |-> DefaultConfig]

(***************************************************************************)
(* The profile and service state a reactor handler works on, as a record,  *)
(* so that a handler is the composition of the methods it calls.           *)
(***************************************************************************)
HS ==
  [report_state |-> report_state,
   last_sent_report_state |-> last_sent_report_state,
   active_connection_profile |-> active_connection_profile,
   device_path |-> device_path,
   interrupt_fd |-> interrupt_fd,
   interrupt_io_watch_id |-> interrupt_io_watch_id,
   fd_closes |-> fd_closes,
   watches |-> watches,
   wire |-> wire,
   last_cleanup |-> NoCleanup]

Commit(s) ==
  /\ report_state' = s.report_state
  /\ last_sent_report_state' = s.last_sent_report_state
  /\ active_connection_profile' = s.active_connection_profile
  /\ device_path' = s.device_path
  /\ interrupt_fd' = s.interrupt_fd
  /\ interrupt_io_watch_id' = s.interrupt_io_watch_id
  /\ fd_closes' = s.fd_closes
  /\ watches' = s.watches
  /\ wire' = s.wire
  /\ last_cleanup' = s.last_cleanup

\* os.close(fd)
os_close(s, fd) == [s EXCEPT !.fd_closes[fd] = @ + 1]

\* An unregister_active_connection that forgets the connection but keeps the
\* two reports as they are.
unregister_keeps_reports(s, profile_conn_instance) ==
  IF s.active_connection_profile = profile_conn_instance
  THEN [s EXCEPT !.active_connection_profile = "None"]
  ELSE s

\* HidService.unregister_active_connection(profile_conn_instance)
unregister_active_connection(s, profile_conn_instance) ==
  IF s.active_connection_profile = profile_conn_instance
  THEN [s EXCEPT !.active_connection_profile = "None",
                 !.report_state = EmptyReport,
                 !.last_sent_report_state = EmptyReport]
  ELSE s

\* HidProfile.cleanup_connection_resources
cleanup_connection_resources(s) ==
  LET found == [ran |-> TRUE,
                connected |-> s.active_connection_profile # "None",
                fd |-> s.interrupt_fd,
                watch |-> s.interrupt_io_watch_id,
                write_failed |-> FALSE,
                request |-> ""]
      s1 == IF s.interrupt_io_watch_id > 0
            THEN [s EXCEPT !.watches = @ \ {s.interrupt_io_watch_id},
                           !.interrupt_io_watch_id = 0]
            ELSE s
      s2 == IF s1.interrupt_fd # -1
            THEN [os_close(s1, s1.interrupt_fd) EXCEPT !.interrupt_fd = -1]
            ELSE s1
      s3 == unregister_active_connection(s2, "profile")
  IN [s3 EXCEPT !.device_path = "None", !.last_cleanup = found]

\* A send_report that only reports the failed write and leaves the
\* connection as it is.
send_report_keeps_connection(s, report_bytes, write_ok) ==
  IF s.interrupt_fd # -1
  THEN IF write_ok
       THEN [s |-> [s EXCEPT !.wire = Append(@, report_bytes)], sent |-> TRUE]
       ELSE [s |-> [s EXCEPT !.last_cleanup.write_failed = TRUE], sent |-> FALSE]
  ELSE [s |-> s, sent |-> FALSE]

\* HidProfile.send_report: os.write succeeds (write_ok) or raises OSError.
send_report(s, report_bytes, write_ok) ==
  IF s.interrupt_fd # -1
  THEN IF write_ok
       THEN [s |-> [s EXCEPT !.wire = Append(@, report_bytes)], sent |-> TRUE]
       ELSE [s |-> [cleanup_connection_resources(s)
                      EXCEPT !.last_cleanup.write_failed = TRUE],
             sent |-> FALSE]
  ELSE [s |-> s, sent |-> FALSE]

\* A _try_send_current_report_if_changed that stores the report it handed to
\* send_report whether or not it was written.
try_send_stores_unsent(s, write_ok) ==
  IF s.report_state # s.last_sent_report_state
  THEN IF s.active_connection_profile # "None"
       THEN [send_report(s, s.report_state, write_ok).s
               EXCEPT !.last_sent_report_state = s.report_state]
       ELSE s
  ELSE s

\* A _try_send_current_report_if_changed that puts the report ID 0x01 in
\* front of the report.
try_send_with_report_id(s, write_ok) ==
  IF s.report_state # s.last_sent_report_state
  THEN IF s.active_connection_profile # "None"
       THEN LET r == send_report(s, <<1>> \o s.report_state, write_ok) IN
            IF r.sent
            THEN [r.s EXCEPT !.last_sent_report_state = r.s.report_state]
            ELSE r.s
       ELSE s
  ELSE s

\* A _try_send_current_report_if_changed that sends the report whether or
\* not it differs from the one sent last.
try_send_always(s, write_ok) ==
  IF s.active_connection_profile # "None"
  THEN LET r == send_report(s, s.report_state, write_ok) IN
       IF r.sent
       THEN [r.s EXCEPT !.last_sent_report_state = r.s.report_state]
       ELSE r.s
  ELSE s

\* HidService._try_send_current_report_if_changed
try_send_current_report_if_changed(s, write_ok) ==
  IF s.report_state # s.last_sent_report_state
  THEN IF s.active_connection_profile # "None"
       THEN LET r == send_report(s, s.report_state, write_ok) IN
            IF r.sent
            THEN [r.s EXCEPT !.last_sent_report_state = r.s.report_state]
            ELSE r.s
       ELSE s
  ELSE s

\* A _send_empty_report that sends the current report instead of zeros.
send_current_report(s, write_ok) ==
  IF s.active_connection_profile # "None"
  THEN LET r == send_report(s, s.report_state, write_ok) IN
       IF r.sent
       THEN [r.s EXCEPT !.last_sent_report_state = r.s.report_state]
       ELSE r.s
  ELSE s

\* HidService._send_empty_report
send_empty_report(s, write_ok) ==
  IF s.active_connection_profile # "None"
  THEN LET r == send_report(s, EmptyReport, write_ok) IN
       IF r.sent
       THEN [r.s EXCEPT !.last_sent_report_state = EmptyReport,
                        !.report_state = EmptyReport]
       ELSE r.s
  ELSE s

\* HidService.register_active_connection(profile_conn_instance)
register_active_connection(s, profile_conn_instance, write_ok) ==
  LET s1 == IF s.active_connection_profile # "None"
               /\ s.active_connection_profile # profile_conn_instance
            THEN cleanup_connection_resources(s)
            ELSE s
      s2 == [s1 EXCEPT !.active_connection_profile = profile_conn_instance]
  IN send_empty_report(s2, write_ok)

(***************************************************************************)
(* The reactor thread: BlueZ profile callbacks and the io watch callback.  *)
(* They run one at a time, and not while the drain callback runs.          *)
(***************************************************************************)
\* host object paths BlueZ may name
Devices == {"/org/bluez/hci0/dev_1", "/org/bluez/hci0/dev_2"}

\* A reactor whose callbacks are dispatched while the drain callback is
\* still running.
ReactorRunning == hid_pc = "mainloop" /\ exit_code = "running"

\* The reactor thread is between callbacks: GLib runs the sources of the loop
\* one at a time on the thread that called mainloop.run().
ReactorIdle == hid_pc = "mainloop" /\ drain_pc = "idle" /\ exit_code = "running"

\* The body of HidProfile.NewConnection. failure: "none", "take" (fd_dict['fd']
\* .take() raises) or "watch" (io_add_watch raises); fd is the descriptor handed
\* over; the source id of its watch is fd.
NewConnectionBody(s, dev, fd, failure, write_ok) ==
  LET s0 == [s EXCEPT !.device_path = dev]
      taken == [s0 EXCEPT !.interrupt_fd = fd,
                          !.fd_closes = @ @@ (fd :> 0),
                          !.wire = <<>>]
      watched == [taken EXCEPT !.interrupt_io_watch_id = fd,
                               !.watches = @ \cup {fd}]
      raised == IF failure = "take" THEN s0 ELSE taken
  IN IF failure = "none"
     THEN register_active_connection(watched, "profile", write_ok)
     ELSE IF raised.interrupt_fd # -1
          THEN [os_close(raised, raised.interrupt_fd) EXCEPT !.interrupt_fd = -1]
          ELSE raised

NewConnection(dev, failure, write_ok) ==
  /\ ReactorIdle
  /\ bluez_registered
  /\ Len(fd_closes) < MaxConns
  /\ Commit(NewConnectionBody(HS, dev, Len(fd_closes) + 1, failure, write_ok))
  /\ conn_at' = IF failure = "take" THEN conn_at ELSE n_put
  /\ UNCHANGED <<svcvars, queuevars, drainvars, inputvars, appvars, storevars,
                 round_trip, newvars>>

\* A RequestDisconnection that cleans up whatever device is named.
RequestDisconnectionAny(s, dev) == cleanup_connection_resources(s)

\* HidProfile.RequestDisconnection
RequestDisconnectionBody(s, dev) ==
  IF s.device_path = dev THEN cleanup_connection_resources(s) ELSE s

\* last_cleanup.request remembers the device the request named
RequestDisconnection(dev) ==
  /\ ReactorIdle
  /\ bluez_registered
  /\ Commit([RequestDisconnectionBody(HS, dev) EXCEPT !.last_cleanup.request = dev])
  /\ UNCHANGED <<svcvars, queuevars, drainvars, inputvars, appvars, storevars,
                 conn_at, round_trip, newvars>>

\* HidProfile.interrupt_channel_event_cb for the watch `watch` (on descriptor
\* `watch`). conditions: "HUP" (IO_HUP | IO_ERR), or IO_IN with os.read giving
\* "data", "empty" or "oserror". Returning False removes the watch that fired.
interrupt_channel_event_cb(s, watch, conditions) ==
  LET removed(t) == [t EXCEPT !.watches = @ \ {watch}] IN
  IF watch # s.interrupt_fd THEN removed(s)
  ELSE IF conditions = "HUP" THEN removed(cleanup_connection_resources(s))
  ELSE IF conditions = "data" THEN s
  ELSE removed(cleanup_connection_resources(s))

ChannelEvent(watch, conditions) ==
  /\ ReactorIdle
  /\ watch \in watches
  /\ Commit(interrupt_channel_event_cb(HS, watch, conditions))
  /\ UNCHANGED <<svcvars, queuevars, drainvars, inputvars, appvars, storevars,
                 conn_at, round_trip, newvars>>

(***************************************************************************)
(* The drain tick, HidService._command_queue_processor_cb, step by step:   *)
(* the input thread puts commands while the loop runs.                     *)
(***************************************************************************)
\* A queue that hands out its newest item first (queue.LifoQueue).
get_nowait_lifo(q) == [item |-> q[Len(q)], rest |-> SubSeq(q, 1, Len(q) - 1)]

\* queue.get_nowait(): the item taken and the queue left
get_nowait(q) == [item |-> Head(q), rest |-> Tail(q)]

\* The effect of one command on the report.
ApplyCommand(rs, command) ==
  IF command.type = "press" THEN update_report_for_keys(rs, command.keys, TRUE)
  ELSE IF command.type = "release" THEN update_report_for_keys(rs, command.keys, FALSE)
  ELSE rs

Tick_Begin ==
  /\ hid_pc = "mainloop" /\ drain_pc = "idle" /\ exit_code = "running"
  /\ tick_scheduled
  /\ IF stop_requested_event
     THEN tick_scheduled' = FALSE /\ UNCHANGED drain_pc
     ELSE drain_pc' = "loop" /\ UNCHANGED tick_scheduled
  /\ UNCHANGED <<hidvars, profile_instance, stop_requested_event, bluez_registered,
                 mainloop_quit, hid_pc, start_failed, queuevars, processed_command,
                 applied_log, inputvars, appvars, storevars, conn_at, round_trip, newvars>>

\* the command raises inside _update_report_for_keys; an unknown command type
\* does not reach it
CommandRaises(command) ==
  command.type \in {"press", "release"} /\ RaisesAt(command.keys) # 0

\* One pass of the while loop. An exception out of _update_report_for_keys
\* is caught by the handler of line 353: the callback returns True at once,
\* without task_done, without the rest of the queue and without sending.
Tick_Loop ==
  /\ drain_pc = "loop" /\ exit_code = "running"
  /\ command_queue # <<>>
  /\ ~stop_requested_event
  /\ LET g == get_nowait(command_queue) IN
     /\ command_queue' = g.rest
     /\ report_state' = ApplyCommand(report_state, g.item)
     /\ applied_log' = Append(applied_log, g.item)
     /\ IF CommandRaises(g.item)
        THEN drain_pc' = "idle" /\ processed_command' = FALSE
        ELSE drain_pc' = "loop" /\ processed_command' = TRUE
  /\ last_cleanup' = NoCleanup
  /\ UNCHANGED <<last_sent_report_state, active_connection_profile, device_path,
                 interrupt_fd, interrupt_io_watch_id, fd_closes, watches, wire,
                 svcvars, n_put, put_log, inputvars, appvars,
                 storevars, conn_at, round_trip, newvars>>

Tick_Finish(write_ok) ==
  /\ drain_pc = "loop" /\ exit_code = "running"
  /\ command_queue = <<>> \/ stop_requested_event
  /\ Commit(IF processed_command
            THEN try_send_current_report_if_changed(HS, write_ok)
            ELSE HS)
  /\ drain_pc' = "idle"
  /\ processed_command' = FALSE
  /\ UNCHANGED <<svcvars, queuevars, applied_log, inputvars, appvars, storevars,
                 conn_at, round_trip, newvars>>

(***************************************************************************)
(* The input thread: InputHandler.process_event.                           *)
(***************************************************************************)
\* A put that places the command at the head of the queue.
put_front(q, n, type, keys) == <<[id |-> n + 1, type |-> type, keys |-> keys]>> \o q

\* A dispatcher that puts only the press of a key_tap.
CommandsForTapOnce(m, event) ==
  LET action_key == EVENT_TUPLE_TO_ACTION(event) IN
  IF event[1] = EV_SYN \/ action_key = "None" \/ action_key \notin DOMAIN m
  THEN <<>>
  ELSE LET command_type == m[action_key].type
           keys_to_act == m[action_key].keys
       IN IF keys_to_act = <<>> /\ command_type # "none" THEN <<>>
          ELSE IF command_type \in {"key_press", "key_tap"} THEN <<"press">>
          ELSE IF command_type = "key_release" THEN <<"release">>
          ELSE <<>>

\* A dispatcher that invents a press for an action the table does not name.
CommandsForDefault(m, event) ==
  LET action_key == EVENT_TUPLE_TO_ACTION(event) IN
  IF event[1] = EV_SYN \/ action_key = "None"
  THEN <<>>
  ELSE IF action_key \notin DOMAIN m THEN <<"press">>
  ELSE LET command_type == m[action_key].type
           keys_to_act == m[action_key].keys
       IN IF keys_to_act = <<>> /\ command_type # "none" THEN <<>>
          ELSE IF command_type = "key_press" THEN <<"press">>
          ELSE IF command_type = "key_release" THEN <<"release">>
          ELSE IF command_type = "key_tap" THEN <<"press", "release">>
          ELSE <<>>

\* command_queue.put({'type': ..., 'keys': ...})
put(q, n, type, keys) == Append(q, [id |-> n + 1, type |-> type, keys |-> keys])

\* the commands process_event puts for an event, in order, under table m
CommandsFor(m, event) ==
  LET action_key == EVENT_TUPLE_TO_ACTION(event) IN
  IF event[1] = EV_SYN \/ action_key = "None" \/ action_key \notin DOMAIN m
  THEN <<>>
  ELSE LET command_type == m[action_key].type
           keys_to_act == m[action_key].keys
       IN IF keys_to_act = <<>> /\ command_type # "none" THEN <<>>
          ELSE IF command_type = "key_press" THEN <<"press">>
          ELSE IF command_type = "key_release" THEN <<"release">>
          ELSE IF command_type = "key_tap" THEN <<"press", "release">>
          ELSE <<>>

\* what process_event looks up for an event in table m: the action of the
\* static table and, if the table names it, its entry
Found(m, event) ==
  LET action_key == EVENT_TUPLE_TO_ACTION(event)
      mapped == action_key \in DOMAIN m
  IN [event |-> event,
      action |-> action_key,
      mapped |-> mapped,
      type |-> IF mapped THEN m[action_key].type ELSE "",
      keys |-> IF mapped THEN m[action_key].keys ELSE <<>>]

\* process_event up to and including its first put
process_event(event) ==
  /\ app_pc \in {"started", "serving", "stopping", "stopped"}
  /\ exit_code = "running"
  /\ input_pc = <<>>
  /\ n_events < MaxEvents
  /\ n_events' = n_events + 1
  /\ LET cmds == CommandsFor(mappings, event)
         keys == Found(mappings, event).keys
     IN IF cmds = <<>>
        THEN UNCHANGED <<queuevars, input_pc>>
        ELSE /\ command_queue' = put(command_queue, n_put, cmds[1], keys)
             /\ n_put' = n_put + 1
             /\ put_log' = Append(put_log, [id |-> n_put + 1, type |-> cmds[1],
                                            keys |-> keys, ev |-> n_events + 1])
             /\ input_pc' = IF Len(cmds) = 2 THEN <<keys>> ELSE <<>>
  /\ dispatch_log' = Append(dispatch_log, Found(mappings, event))
  /\ UNCHANGED <<hidvars, svcvars, drainvars, appvars, storevars, conn_at, round_trip, newvars>>

\* the second put of a key_tap
process_event_tap_release ==
  /\ exit_code = "running"
  /\ input_pc # <<>>
  /\ command_queue' = put(command_queue, n_put, "release", input_pc[1])
  /\ n_put' = n_put + 1
  /\ put_log' = Append(put_log, [id |-> n_put + 1, type |-> "release",
                                 keys |-> input_pc[1], ev |-> n_events])
  /\ input_pc' = <<>>
  /\ UNCHANGED <<hidvars, svcvars, drainvars, n_events, dispatch_log, appvars, storevars, conn_at, round_trip, newvars>>

(***************************************************************************)
(* HidService.run, stop and perform_cleanup.                               *)
(***************************************************************************)
\* main.py:49-50 / main_gui_app.py:242-245: the thread running HidService.run
App_StartHid ==
  /\ app_pc = "init" /\ exit_code = "running"
  /\ app_pc' = "hid_started"
  /\ hid_pc' = "init"
  /\ UNCHANGED <<hidvars, profile_instance, stop_requested_event, bluez_registered,
                 mainloop_quit, tick_scheduled, start_failed, queuevars, drainvars,
                 inputvars, exit_code, storevars, conn_at, round_trip, newvars>>

\* main.py:55-58 / main_gui_app.py:243-247: the thread running InputHandler.run
App_StartInput ==
  /\ app_pc = "hid_started" /\ exit_code = "running"
  /\ app_pc' = "started"
  /\ UNCHANGED <<hidvars, svcvars, queuevars, drainvars, inputvars, exit_code,
                 storevars, conn_at, round_trip, newvars>>

\* run(): _init_dbus_and_mainloop, then _find_adapter; without an adapter
\* run() calls stop() and returns.
Run_FindAdapter(found) ==
  /\ hid_pc = "init" /\ exit_code = "running"
  /\ IF found
     THEN /\ hid_pc' = "register"
          /\ UNCHANGED <<stop_requested_event, start_failed>>
     ELSE /\ stop_requested_event' = TRUE
          /\ hid_pc' = "returned"
          /\ start_failed' = TRUE
  /\ UNCHANGED <<hidvars, profile_instance, bluez_registered, mainloop_quit,
                 tick_scheduled, queuevars, drainvars, inputvars, appvars,
                 storevars, conn_at, round_trip, newvars>>

\* run(): _register_hid_profile, then timeout_add of the drain callback;
\* a failed registration calls stop() and returns.
Run_Register(registered) ==
  /\ hid_pc = "register" /\ exit_code = "running"
  /\ profile_instance' = "profile"
  /\ IF registered
     THEN /\ bluez_registered' = TRUE
          /\ tick_scheduled' = TRUE
          /\ hid_pc' = "scheduled"
          /\ UNCHANGED <<stop_requested_event, start_failed>>
     ELSE /\ stop_requested_event' = TRUE
          /\ hid_pc' = "returned"
          /\ start_failed' = TRUE
          /\ UNCHANGED <<bluez_registered, tick_scheduled>>
  /\ UNCHANGED <<hidvars, mainloop_quit, queuevars, drainvars, inputvars, appvars,
                 storevars, conn_at, round_trip, newvars>>

\* run(): self.mainloop.run()
Run_MainLoop ==
  /\ hid_pc = "scheduled" /\ exit_code = "running"
  /\ hid_pc' = "mainloop"
  /\ UNCHANGED <<hidvars, profile_instance, stop_requested_event, bluez_registered,
                 mainloop_quit, tick_scheduled, start_failed, queuevars, drainvars,
                 inputvars, appvars, storevars, conn_at, round_trip, newvars>>

\* HidService.perform_cleanup on the profile and service record
perform_cleanup(s) ==
  IF s.active_connection_profile # "None"
  THEN [cleanup_connection_resources(s) EXCEPT !.active_connection_profile = "None"]
  ELSE s

\* The finally block of run(): cleanup only if stop() was not called.
RunFinally ==
  /\ IF ~stop_requested_event
     THEN /\ Commit(perform_cleanup(HS))
          \* _unregister_hid_profile: UnregisterProfile, then profile_instance = None
          /\ bluez_registered' = IF profile_instance # "None" THEN FALSE
                                 ELSE bluez_registered
          /\ profile_instance' = "None"
     ELSE UNCHANGED <<hidvars, bluez_registered, profile_instance>>
  /\ hid_pc' = "returned"
  /\ UNCHANGED <<stop_requested_event, mainloop_quit, tick_scheduled, start_failed,
                 queuevars, drainvars, inputvars, appvars, storevars, conn_at, round_trip, newvars>>

\* mainloop.run() returns after quit()
Run_Exit ==
  /\ ReactorIdle
  /\ mainloop_quit
  /\ RunFinally

\* mainloop.run() raises (the except branches of run())
Run_MainLoopError ==
  /\ ReactorIdle
  /\ ~mainloop_quit
  /\ RunFinally

\* HidService.stop(), called from the application thread (on_stop):
\* first the event is set ...
Stop_SetEvent ==
  /\ app_pc = "started" /\ exit_code = "running"
  /\ stop_requested_event' = TRUE
  /\ app_pc' = "stopping"
  /\ UNCHANGED <<hidvars, profile_instance, bluez_registered, mainloop_quit,
                 tick_scheduled, hid_pc, start_failed, queuevars, drainvars,
                 inputvars, exit_code, storevars, conn_at, round_trip, newvars>>

\* A stop() that performs the cleanup itself, on the thread that called it.
Stop_QuitCleanup ==
  /\ app_pc = "stopping" /\ exit_code = "running"
  /\ mainloop_quit' = IF hid_pc = "mainloop" THEN TRUE ELSE mainloop_quit
  /\ app_pc' = "stopped"
  /\ Commit(perform_cleanup(HS))
  /\ UNCHANGED <<profile_instance, stop_requested_event, bluez_registered,
                 tick_scheduled, hid_pc, start_failed, queuevars, drainvars,
                 inputvars, exit_code, storevars, conn_at, round_trip, newvars>>

\* ... then the loop is asked to quit if it is running.
Stop_Quit ==
  /\ app_pc = "stopping" /\ exit_code = "running"
  /\ mainloop_quit' = IF hid_pc = "mainloop" THEN TRUE ELSE mainloop_quit
  /\ app_pc' = "stopped"
  /\ UNCHANGED <<hidvars, profile_instance, stop_requested_event, bluez_registered,
                 tick_scheduled, hid_pc, start_failed, queuevars, drainvars,
                 inputvars, exit_code, storevars, conn_at, round_trip, newvars>>

\* main.py: web_server.run() blocks the main thread, or raises and main()
\* leaves through sys.exit(1).
Main_RunWebServer(serving) ==
  /\ app_pc = "started" /\ exit_code = "running"
  /\ IF serving
     THEN app_pc' = "serving" /\ UNCHANGED exit_code
     ELSE app_pc' = "exited" /\ exit_code' = "1"
  /\ UNCHANGED <<hidvars, svcvars, queuevars, drainvars, inputvars, storevars,
                 conn_at, round_trip, newvars>>

(***************************************************************************)
(* The administrative thread: WebServer.set_mappings.                      *)
(***************************************************************************)
\* a table an administrator may post in place of the default one
AltConfig ==
  [a \in {"front_button_press", "front_button_release", "top_button_1_press",
          "top_button_1_release"} |->
     CASE a = "front_button_press" -> [type |-> "key_tap", keys |-> <<>>]
       [] a = "front_button_release" -> [type |-> "bogus", keys |-> <<"A">>]
       [] a = "top_button_1_press" -> [type |-> "key_press", keys |-> <<"B">>]
       [] a = "top_button_1_release" -> [type |-> "key_release", keys |-> <<"B">>]]

Tables == {DefaultConfig, AltConfig}

\* ConfigManager.update_mappings(new_mappings): the table is replaced, then
\* save_config() reports whether the file was written.
Admin_Update(new_mappings, saved) ==
  /\ app_pc \in {"started", "serving"} /\ exit_code = "running"
  /\ admin_pc = "idle"
  /\ n_updates < MaxUpdates
  /\ n_updates' = n_updates + 1
  /\ config' = new_mappings
  /\ admin_pc' = IF saved THEN "reload" ELSE "idle"
  /\ UNCHANGED <<hidvars, svcvars, queuevars, drainvars, inputvars, appvars,
                 mappings, conn_at, round_trip, newvars>>

\* InputHandler.load_mappings, called by set_mappings after a successful update
Admin_Reload ==
  /\ admin_pc = "reload" /\ exit_code = "running"
  /\ mappings' = config
  /\ admin_pc' = "idle"
  /\ UNCHANGED <<hidvars, svcvars, queuevars, drainvars, inputvars, appvars,
                 config, n_updates, conn_at, round_trip, newvars>>

(***************************************************************************)
(* Specifications.                                                         *)
(***************************************************************************)
\* the triggers fired at the transport
TransportEvents == {<<EV_KEY, KEY_1, 1>>, <<EV_KEY, KEY_ENTER, 1>>,
                    <<EV_KEY, KEY_ENTER, 0>>}

\* the events fired at the dispatcher
DispatchEvents == TransportEvents \cup
                  {<<EV_SYN, 0, 0>>, <<EV_KEY, KEY_1, 0>>, <<EV_REL, REL_DIAL, 1>>,
                   <<EV_REL, REL_DIAL, 2>>}

\* The threads both entry points start, and what the reactor and the input
\* thread then do.
NextCore ==
  \/ App_StartHid
  \/ App_StartInput
  \/ \E found \in BOOLEAN : Run_FindAdapter(found)
  \/ \E registered \in BOOLEAN : Run_Register(registered)
  \/ Run_MainLoop
  \/ \E dev \in Devices, failure \in {"none", "take", "watch"}, write_ok \in BOOLEAN :
        NewConnection(dev, failure, write_ok)
  \/ \E dev \in Devices : RequestDisconnection(dev)
  \/ \E watch \in watches, conditions \in {"HUP", "data", "empty", "oserror"} :
        ChannelEvent(watch, conditions)
  \/ Tick_Begin
  \/ Tick_Loop
  \/ \E write_ok \in BOOLEAN : Tick_Finish(write_ok)
  \/ \E event \in TransportEvents : process_event(event)
  \/ process_event_tap_release

Next == NextCore

\* The pipeline with the default mapping table, running on.
Spec == Init /\ [][Next]_vars

\* main.py: the main thread goes on to run the web server.
NextMain ==
  \/ NextCore
  \/ \E serving \in BOOLEAN : Main_RunWebServer(serving)

SpecMain == Init /\ [][NextMain]_vars

\* main_gui_app.py: the same pipeline, stopped by on_stop; the reactor loop
\* may also end by raising.
NextStop ==
  \/ NextCore
  \/ Stop_SetEvent
  \/ Stop_Quit
  \/ Run_Exit
  \/ Run_MainLoopError

SpecStop == Init /\ [][NextStop]_vars

\* The dispatcher and the mapping store; the commands stay in the queue.
NextDispatch ==
  \/ App_StartHid
  \/ App_StartInput
  \/ \E event \in DispatchEvents : process_event(event)
  \/ process_event_tap_release
  \/ \E new_mappings \in Tables, saved \in BOOLEAN : Admin_Update(new_mappings, saved)
  \/ Admin_Reload

SpecDispatch == Init /\ [][NextDispatch]_vars

(***************************************************************************)
(* The report state machine alone: commands with any of these key lists    *)
(* reach _update_report_for_keys in any order.                             *)
(***************************************************************************)
\* non-modifier keys a command may name: six distinct usage codes
ReportKeys == {"A", "B", "C", "D", "E", "F"}

\* key lists of the commands
ReportKeyLists ==
  {<<k>> : k \in ReportKeys \cup {"a", "NONE"}}

\* usage codes in the key slots of a report
HeldCodes(rs) == {rs[i] : i \in 3..8} \ {0}

\* one command applied by the drain loop
Report_Command(type, keys) ==
  /\ report_state' = ApplyCommand(report_state, [type |-> type, keys |-> keys])
  /\ round_trip' =
       IF type = "press" /\ Len(keys) = 1
       THEN [key |-> keys[1], before |-> report_state, done |-> FALSE]
       ELSE IF type = "release" /\ round_trip.key # "" /\ ~round_trip.done
               /\ keys = <<round_trip.key>>
            THEN [round_trip EXCEPT !.done = TRUE]
            ELSE NoRoundTrip
  /\ UNCHANGED <<last_sent_report_state, active_connection_profile, device_path,
                 interrupt_fd, interrupt_io_watch_id, fd_closes, watches, wire,
                 last_cleanup, svcvars, queuevars, drainvars, inputvars, appvars,
                 storevars, conn_at, newvars>>

NextReport ==
  \E type \in {"press", "release"}, keys \in ReportKeyLists : Report_Command(type, keys)

SpecReport == Init /\ [][NextReport]_vars

(***************************************************************************)
(* The input thread: InputHandler.run, _connect_devices and stop.          *)
(***************************************************************************)
\* time.sleep(5): the backoff before a reconnection
BackoffSeconds == 5
\* the timeout of select()
SelectTimeout == 1

\* paths of the handles in the open-device map dm
OpenPaths(h, dm) == {h[i].path : i \in dm}

\* A close_all that forgets the handles without closing them.
forget_all(h, dm) == h

\* dev.close() on every handle of the map dm
close_all(h, dm) ==
  [i \in DOMAIN h |-> IF i \in dm THEN [h[i] EXCEPT !.closes = @ + 1] ELSE h[i]]

\* _connect_devices: stale handles are closed and dropped, then every
\* configured path is tried in order; ok are the paths that exist, are
\* readable and open without error.
connect_devices(h, dm, ok) ==
  LET h0 == close_all(h, dm)
      h1 == IF "knob" \in ok THEN Append(h0, [path |-> "knob", closes |-> 0]) ELSE h0
      h2 == IF "buttons" \in ok THEN Append(h1, [path |-> "buttons", closes |-> 0]) ELSE h1
  IN [handles |-> h2, devices_map |-> (Len(h0) + 1)..Len(h2)]

\* the paths a call of _connect_devices may open now
OpenChoices ==
  {ok \in SUBSET (avail \cap DevicePaths) : Len(handles) + Cardinality(ok) <= MaxOpens}

\* run(): the initial _connect_devices (lines 99-101)
Src_Start(ok) ==
  /\ src_pc = "not_started"
  /\ app_pc = "started"
  /\ LET c == connect_devices(handles, devices_map, ok) IN
     /\ handles' = c.handles
     /\ devices_map' = c.devices_map
  /\ opened_after_stop' = (opened_after_stop \/ (src_stop /\ ok # {}))
  /\ src_pc' = "while"
  /\ UNCHANGED <<hidvars, svcvars, queuevars, drainvars, inputvars, appvars,
                 storevars, conn_at, round_trip, rollover, last_cmd, cfgvars, src_stop, avail, waited>>

\* the loop test (line 103) and the test of devices_map (line 104)
Src_While ==
  /\ src_pc = "while"
  /\ waited' = 0
  /\ src_pc' = IF src_stop THEN "closing"
               ELSE IF devices_map = {} THEN "sleep"
               ELSE "select"
  /\ UNCHANGED <<hidvars, svcvars, queuevars, drainvars, inputvars, appvars,
                 storevars, conn_at, round_trip, rollover, last_cmd, cfgvars, src_stop, devices_map,
                 handles, avail, opened_after_stop>>

\* time.sleep(5) with no device open (line 106)
Src_Sleep ==
  /\ src_pc = "sleep"
  /\ waited' = waited + BackoffSeconds
  /\ src_pc' = "reconnect"
  /\ UNCHANGED <<hidvars, svcvars, queuevars, drainvars, inputvars, appvars,
                 storevars, conn_at, round_trip, rollover, last_cmd, cfgvars, src_stop, devices_map,
                 handles, avail, opened_after_stop>>

\* _connect_devices after the backoff (lines 107-108)
Src_Reconnect(ok) ==
  /\ src_pc = "reconnect"
  /\ LET c == connect_devices(handles, devices_map, ok) IN
     /\ handles' = c.handles
     /\ devices_map' = c.devices_map
     /\ src_pc' = IF c.devices_map = {} THEN "while" ELSE "select"
  /\ opened_after_stop' = (opened_after_stop \/ (src_stop /\ ok # {}))
  /\ UNCHANGED <<hidvars, svcvars, queuevars, drainvars, inputvars, appvars,
                 storevars, conn_at, round_trip, rollover, last_cmd, cfgvars, src_stop, avail, waited>>

\* select(fds_to_watch, [], fds_to_watch, 1.0) (lines 111-117); raised: it
\* raises, and the handler of line 146 closes and forgets every handle.
Src_Select(raised) ==
  /\ src_pc = "select"
  /\ IF raised
     THEN /\ handles' = close_all(handles, devices_map)
          /\ devices_map' = {}
          /\ src_pc' = "recover"
          /\ UNCHANGED waited
     ELSE /\ waited' = waited + SelectTimeout
          /\ src_pc' = "check"
          /\ UNCHANGED <<handles, devices_map>>
  /\ UNCHANGED <<hidvars, svcvars, queuevars, drainvars, inputvars, appvars,
                 storevars, conn_at, round_trip, rollover, last_cmd, cfgvars, src_stop, avail,
                 opened_after_stop>>

\* if self.stop_event.is_set(): break (line 119)
Src_Check ==
  /\ src_pc = "check"
  /\ waited' = 0
  /\ src_pc' = IF src_stop THEN "closing" ELSE "read"
  /\ UNCHANGED <<hidvars, svcvars, queuevars, drainvars, inputvars, appvars,
                 storevars, conn_at, round_trip, rollover, last_cmd, cfgvars, src_stop, devices_map,
                 handles, avail, opened_after_stop>>

\* an event read from an open device is dispatched (lines 126-127)
Src_Dispatch(event) ==
  /\ src_pc = "read"
  /\ devices_map # {}
  /\ process_event(event)

\* the second put of a key_tap dispatched from the read loop
Src_DispatchTapRelease ==
  /\ src_pc = "read"
  /\ process_event_tap_release

\* The rest of the loops over r and x (lines 121-143): the handles in bad
\* fail with OSError or are reported in x, and are closed and dropped;
\* crashed: another exception reaches the handler of line 146, which closes
\* and forgets every handle.
Src_Read(bad, crashed) ==
  /\ src_pc = "read"
  /\ input_pc = <<>>
  /\ bad \subseteq devices_map
  /\ IF crashed
     THEN /\ handles' = close_all(handles, devices_map)
          /\ devices_map' = {}
          /\ src_pc' = "recover"
     ELSE /\ handles' = close_all(handles, bad)
          /\ devices_map' = devices_map \ bad
          /\ src_pc' = "while"
  /\ UNCHANGED <<hidvars, svcvars, queuevars, drainvars, inputvars, appvars,
                 storevars, conn_at, round_trip, rollover, last_cmd, cfgvars, src_stop, avail, waited,
                 opened_after_stop>>

\* time.sleep(5) of the recovery (line 153)
Src_Recover ==
  /\ src_pc = "recover"
  /\ waited' = waited + BackoffSeconds
  /\ src_pc' = "while"
  /\ UNCHANGED <<hidvars, svcvars, queuevars, drainvars, inputvars, appvars,
                 storevars, conn_at, round_trip, rollover, last_cmd, cfgvars, src_stop, devices_map,
                 handles, avail, opened_after_stop>>

\* after the loop: every handle of the map is closed, the map cleared
\* (lines 155-164)
Src_Close ==
  /\ src_pc = "closing"
  /\ handles' = close_all(handles, devices_map)
  /\ devices_map' = {}
  /\ src_pc' = "stopped"
  /\ UNCHANGED <<hidvars, svcvars, queuevars, drainvars, inputvars, appvars,
                 storevars, conn_at, round_trip, rollover, last_cmd, cfgvars, src_stop, avail, waited,
                 opened_after_stop>>

\* InputHandler.stop(), called from the application thread
Src_Stop ==
  /\ app_pc = "started"
  /\ ~src_stop
  /\ src_stop' = TRUE
  /\ UNCHANGED <<hidvars, svcvars, queuevars, drainvars, inputvars, appvars,
                 storevars, conn_at, round_trip, rollover, last_cmd, cfgvars, src_pc, devices_map,
                 handles, avail, waited, opened_after_stop>>

\* a device node appears or disappears (os.path.exists, os.access)
Env_DeviceChange(path) ==
  /\ app_pc = "started"
  /\ src_pc # "stopped"
  /\ avail' = IF path \in avail THEN avail \ {path} ELSE avail \cup {path}
  /\ UNCHANGED <<hidvars, svcvars, queuevars, drainvars, inputvars, appvars,
                 storevars, conn_at, round_trip, rollover, last_cmd, cfgvars, src_pc, src_stop,
                 devices_map, handles, waited, opened_after_stop>>

\* the steps of the thread that runs InputHandler.run
SrcStep ==
  \/ \E ok \in OpenChoices : Src_Start(ok)
  \/ Src_While
  \/ Src_Sleep
  \/ \E ok \in OpenChoices : Src_Reconnect(ok)
  \/ \E raised \in BOOLEAN : Src_Select(raised)
  \/ Src_Check
  \/ Src_DispatchTapRelease
  \/ \E bad \in SUBSET devices_map, crashed \in BOOLEAN : Src_Read(bad, crashed)
  \/ Src_Recover
  \/ Src_Close

NextInput ==
  \/ App_StartHid
  \/ App_StartInput
  \/ SrcStep
  \/ \E event \in TransportEvents : Src_Dispatch(event)
  \/ Src_Stop
  \/ \E path \in DevicePaths : Env_DeviceChange(path)

\* The input thread alone; it is scheduled as long as it has a step to take.
SpecInput == Init /\ [][NextInput]_vars /\ WF_vars(SrcStep)

(***************************************************************************)
(* The report state machine with one key more than there are slots.        *)
(***************************************************************************)
\* seven distinct non-modifier keys
RolloverKeys == ReportKeys \cup {"G"}

\* the six key slots of a report
Slots(rs) == SubSeq(rs, 3, 8)

\* one single-key command applied by the drain loop; rollover follows the
\* presses that found all six slots holding other keys
Rollover_Command(type, key) ==
  LET code == get_codes(key)[2]
      drop == /\ type = "press"
              /\ code \notin HeldCodes(report_state)
              /\ \A i \in 3..8 : report_state[i] # 0
  IN /\ report_state' = ApplyCommand(report_state, [type |-> type, keys |-> <<key>>])
     /\ rollover' = [dropped |-> IF drop THEN rollover.dropped \cup {code}
                                 ELSE IF type = "press" THEN rollover.dropped \ {code}
                                 ELSE rollover.dropped,
                     fresh |-> drop,
                     before |-> IF drop THEN report_state ELSE EmptyReport]
     /\ UNCHANGED <<last_sent_report_state, active_connection_profile, device_path,
                    interrupt_fd, interrupt_io_watch_id, fd_closes, watches, wire,
                    last_cleanup, svcvars, queuevars, drainvars, inputvars, appvars,
                    storevars, conn_at, round_trip, last_cmd, srcvars, cfgvars>>

NextRollover ==
  \E type \in {"press", "release"}, key \in RolloverKeys : Rollover_Command(type, key)

SpecRollover == Init /\ [][NextRollover]_vars

(***************************************************************************)
(* The report state machine with every sort of key list entry: known and   *)
(* unknown names, lower case, modifiers, empty and non-string entries.      *)
(***************************************************************************)
\* entries a key list of a mapping may hold
KeyNames == {"A", "B", "C", "a", "LEFT_CTRL", "left_ctrl", "LEFT_SHIFT",
             "NONE", "none", "", "BOGUS", "<5>"}

\* key lists of the commands: every single entry, and lists of two
KeyLists ==
  {<<k>> : k \in KeyNames} \cup
  {<<"A", "A">>, <<"A", "B">>, <<"LEFT_CTRL", "A">>, <<"LEFT_CTRL", "LEFT_SHIFT">>,
   <<"BOGUS", "B">>, <<"<5>", "B">>, <<"B", "<5>">>}

\* one command applied by the drain loop
Keys_Command(type, keys) ==
  /\ report_state' = ApplyCommand(report_state, [type |-> type, keys |-> keys])
  /\ last_cmd' = [type |-> type, keys |-> keys, before |-> report_state]
  /\ UNCHANGED <<last_sent_report_state, active_connection_profile, device_path,
                 interrupt_fd, interrupt_io_watch_id, fd_closes, watches, wire,
                 last_cleanup, svcvars, queuevars, drainvars, inputvars, appvars,
                 storevars, conn_at, round_trip, rollover, srcvars, cfgvars>>

\* the reset of the report when the connection is unregistered
Keys_Reset ==
  /\ report_state' = unregister_active_connection(
                        [HS EXCEPT !.active_connection_profile = "profile"],
                        "profile").report_state
  /\ last_cmd' = NoCmd
  /\ UNCHANGED <<last_sent_report_state, active_connection_profile, device_path,
                 interrupt_fd, interrupt_io_watch_id, fd_closes, watches, wire,
                 last_cleanup, svcvars, queuevars, drainvars, inputvars, appvars,
                 storevars, conn_at, round_trip, rollover, srcvars, cfgvars>>

NextKeys ==
  \/ \E type \in {"press", "release"}, keys \in KeyLists : Keys_Command(type, keys)
  \/ Keys_Reset

SpecKeys == Init /\ [][NextKeys]_vars

(***************************************************************************)
(* The pipeline under a posted table whose key lists hold unknown, empty    *)
(* and non-string entries beside valid keys.                                *)
(***************************************************************************)
\* a partially invalid table an administrator may post
BadKeysConfig ==
  [a \in {"front_button_press", "front_button_release", "top_button_1_press"} |->
     CASE a = "front_button_press" -> [type |-> "key_press", keys |-> <<"<5>", "B">>]
       [] a = "front_button_release" -> [type |-> "key_press", keys |-> <<"", "C">>]
       [] a = "top_button_1_press" -> [type |-> "key_press", keys |-> <<"BOGUS", "A">>]]

\* One host connects and stays; the table is posted and reloaded; events are
\* dispatched and the tick drains the queue.
NextBadKeys ==
  \/ App_StartHid
  \/ App_StartInput
  \/ Run_FindAdapter(TRUE)
  \/ Run_Register(TRUE)
  \/ Run_MainLoop
  \/ NewConnection("/org/bluez/hci0/dev_1", "none", TRUE)
  \/ Tick_Begin
  \/ Tick_Loop
  \/ Tick_Finish(TRUE)
  \/ Admin_Update(BadKeysConfig, TRUE)
  \/ Admin_Reload
  \/ \E event \in TransportEvents : process_event(event)

SpecBadKeys == Init /\ [][NextBadKeys]_vars

(***************************************************************************)
(* All four threads of main_gui_app.py together: the reactor thread with    *)
(* one host, the input thread, the thread that calls stop() and the thread  *)
(* that updates the mappings.                                               *)
(***************************************************************************)
\* the trigger the input thread dispatches here: the first top button, a tap
\* of "A" under the default table
ThreadsEvents == {<<EV_KEY, KEY_1, 1>>}

NextThreads ==
  \/ App_StartHid
  \/ App_StartInput
  \/ Run_FindAdapter(TRUE)
  \/ Run_Register(TRUE)
  \/ Run_MainLoop
  \/ NewConnection("/org/bluez/hci0/dev_1", "none", TRUE)
  \/ RequestDisconnection("/org/bluez/hci0/dev_1")
  \/ Tick_Begin
  \/ Tick_Loop
  \/ \E write_ok \in BOOLEAN : Tick_Finish(write_ok)
  \/ \E event \in ThreadsEvents : process_event(event)
  \/ process_event_tap_release
  \/ Stop_SetEvent
  \/ Stop_Quit
  \/ Run_Exit
  \/ \E saved \in BOOLEAN : Admin_Update(AltConfig, saved)
  \/ Admin_Reload

SpecThreads == Init /\ [][NextThreads]_vars

(***************************************************************************)
(* HidService.run from its first line to its return, with stop() called by *)
(* the application thread at any time after the threads were started.      *)
(***************************************************************************)
\* the steps of the thread that runs HidService.run
HidRunStep ==
  \/ \E found \in BOOLEAN : Run_FindAdapter(found)
  \/ \E registered \in BOOLEAN : Run_Register(registered)
  \/ Run_MainLoop
  \/ Tick_Begin
  \/ Tick_Loop
  \/ Tick_Finish(TRUE)
  \/ Run_Exit

NextRunStop ==
  \/ App_StartHid
  \/ App_StartInput
  \/ HidRunStep
  \/ NewConnection("/org/bluez/hci0/dev_1", "none", TRUE)
  \/ \E event \in ThreadsEvents : process_event(event)
  \/ process_event_tap_release
  \/ Stop_SetEvent
  \/ Stop_Quit

\* The thread of run() goes on whenever it has a step to take: startup
\* proceeds, the loop dispatches the tick that is due, and mainloop.run()
\* returns once quit() was called.
SpecRunStop == Init /\ [][NextRunStop]_vars /\ WF_vars(HidRunStep)

(***************************************************************************)
(* ConfigManager: construction from the configuration file, and the calls  *)
(* of update_mappings, save_config and get_mappings by the administrative   *)
(* thread and by a second caller, all under self.lock, a threading.Lock     *)
(* (not reentrant: acquiring it blocks until it is free, also for the       *)
(* thread that holds it).                                                   *)
(***************************************************************************)
\* everything but the store and its callers
notstore == <<hidvars, svcvars, queuevars, drainvars, inputvars, appvars,
              conn_at, round_trip, rollover, last_cmd, srcvars>>

\* what may be at config_path when ConfigManager is constructed
ConfigFiles ==
  {[state |-> st, table |-> NoConfig] :
     st \in {"missing", "empty", "invalid", "unreadable"}}
  \cup {[state |-> "valid", table |-> t] : t \in Tables}

\* load_config, lines 48-52: the default entries the file's table lacks are
\* added to it
merge_defaults(content) ==
  [a \in DOMAIN content \cup DOMAIN DefaultConfig |->
     IF a \in DOMAIN content THEN content[a] ELSE DefaultConfig[a]]

\* An update_mappings that writes the new entries into the table it has.
update_mappings_merge(c, table) ==
  [a \in DOMAIN c \cup DOMAIN table |->
     IF a \in DOMAIN table THEN table[a] ELSE c[a]]

\* update_mappings, line 94: self.config = new_mappings
update_mappings(c, table) == table

\* get_mappings, line 88: json.loads(json.dumps(self.config)), a new table
\* with the same actions, each with its type and its list of key names
get_mappings(c) ==
  [a \in DOMAIN c |-> [type |-> c[a].type, keys |-> c[a].keys]]

\* load_config, line 35: with self.lock
Load_Lock ==
  /\ load_pc = "start"
  /\ store_lock = "free"
  /\ store_lock' = "load"
  /\ load_pc' = "locked"
  /\ UNCHANGED <<notstore, storevars, config_file, posted_mappings, get_pc, got>>

\* load_config, lines 36-64, up to the call of save_config or the end of the
\* with block
Load_Read ==
  /\ load_pc = "locked"
  /\ IF config_file.state = "valid"
     THEN /\ config' = merge_defaults(config_file.table)
          /\ load_pc' = "loaded"
          /\ store_lock' = "free"
     ELSE IF config_file.state = "unreadable"
     THEN \* open raises: the handler of line 62 takes the defaults
          /\ config' = DefaultConfig
          /\ load_pc' = "loaded"
          /\ store_lock' = "free"
     ELSE \* missing, empty or not JSON: the defaults, then save_config()
          /\ config' = DefaultConfig
          /\ load_pc' = "save"
          /\ UNCHANGED store_lock
  /\ UNCHANGED <<notstore, mappings, admin_pc, n_updates, config_file,
                 posted_mappings, get_pc, got>>

\* InputHandler.__init__, line 53: load_mappings, once the store exists
Load_Mappings ==
  /\ load_pc = "loaded"
  /\ store_lock = "free"
  /\ mappings' = get_mappings(config)
  /\ load_pc' = "done"
  /\ UNCHANGED <<notstore, config, admin_pc, n_updates, store_lock, config_file,
                 posted_mappings, get_pc, got>>

\* save_config, line 69: with self.lock, called by load_config ("load") or
\* by update_mappings ("admin")
Save_Lock(caller) ==
  /\ \/ caller = "load" /\ load_pc = "save"
     \/ caller = "admin" /\ admin_pc = "save"
  /\ store_lock = "free"
  /\ store_lock' = caller
  /\ IF caller = "load"
     THEN load_pc' = "save_locked" /\ UNCHANGED admin_pc
     ELSE admin_pc' = "save_locked" /\ UNCHANGED load_pc
  /\ UNCHANGED <<notstore, config, mappings, n_updates, config_file,
                 posted_mappings, get_pc, got>>

\* save_config, lines 70-83: the file is written, or open raises ("refused"),
\* or json.dump raises after the file was truncated ("partial"); the lock is
\* released and the caller goes on with the result
Save_Write(caller, outcome) ==
  /\ \/ caller = "load" /\ load_pc = "save_locked"
     \/ caller = "admin" /\ admin_pc = "save_locked"
  /\ config_file' =
       CASE outcome = "written" -> [state |-> "valid", table |-> config]
         [] outcome = "partial" -> [state |-> "invalid", table |-> NoConfig]
         [] OTHER -> config_file
  /\ store_lock' = "free"
  /\ IF caller = "load"
     THEN load_pc' = "loaded" /\ UNCHANGED <<admin_pc, posted_mappings>>
     ELSE /\ admin_pc' = IF outcome = "written" THEN "reload" ELSE "idle"
          /\ posted_mappings' = <<>>
          /\ UNCHANGED load_pc
  /\ UNCHANGED <<notstore, config, mappings, n_updates, get_pc, got>>

\* update_mappings(new_mappings), lines 92-93: a table is posted, with self.lock
Set_Lock(table) ==
  /\ load_pc = "done"
  /\ admin_pc = "idle"
  /\ n_updates < MaxUpdates
  /\ store_lock = "free"
  /\ store_lock' = "admin"
  /\ admin_pc' = "set_locked"
  /\ posted_mappings' = <<table>>
  /\ n_updates' = n_updates + 1
  /\ UNCHANGED <<notstore, config, mappings, load_pc, config_file, get_pc, got>>

\* update_mappings, line 94 and the end of the with block
Set_Assign ==
  /\ admin_pc = "set_locked"
  /\ config' = update_mappings(config, posted_mappings[1])
  /\ store_lock' = "free"
  /\ admin_pc' = "save"
  /\ UNCHANGED <<notstore, mappings, n_updates, load_pc, config_file,
                 posted_mappings, get_pc, got>>

\* set_mappings, line 52: load_mappings calls get_mappings, line 86
Reload_Lock ==
  /\ admin_pc = "reload"
  /\ store_lock = "free"
  /\ store_lock' = "admin"
  /\ admin_pc' = "reload_locked"
  /\ UNCHANGED <<notstore, config, mappings, n_updates, load_pc, config_file,
                 posted_mappings, get_pc, got>>

\* get_mappings, line 88, and InputHandler.load_mappings, line 56
Reload_Copy ==
  /\ admin_pc = "reload_locked"
  /\ mappings' = get_mappings(config)
  /\ store_lock' = "free"
  /\ admin_pc' = "idle"
  /\ UNCHANGED <<notstore, config, n_updates, load_pc, config_file,
                 posted_mappings, get_pc, got>>

\* get_mappings called by another thread (GET /api/mappings), line 86
Get_Lock ==
  /\ load_pc = "done"
  /\ get_pc = "idle"
  /\ store_lock = "free"
  /\ store_lock' = "reader"
  /\ get_pc' = "locked"
  /\ UNCHANGED <<notstore, storevars, load_pc, config_file, posted_mappings, got>>

\* get_mappings, line 88, for that thread
Get_Copy ==
  /\ get_pc = "locked"
  /\ got' = <<get_mappings(config)>>
  /\ store_lock' = "free"
  /\ get_pc' = "idle"
  /\ UNCHANGED <<notstore, storevars, load_pc, config_file, posted_mappings>>

\* the steps of the thread that constructs the store
LoadStep ==
  \/ Load_Lock
  \/ Load_Read
  \/ Load_Mappings
  \/ Save_Lock("load")
  \/ \E outcome \in {"written", "refused", "partial"} : Save_Write("load", outcome)

NextStore ==
  \/ Load_Lock
  \/ Load_Read
  \/ Load_Mappings
  \/ \E caller \in {"load", "admin"} : Save_Lock(caller)
  \/ \E caller \in {"load", "admin"}, outcome \in {"written", "refused", "partial"} :
        Save_Write(caller, outcome)
  \/ \E table \in Tables : Set_Lock(table)
  \/ Set_Assign
  \/ Reload_Lock
  \/ Reload_Copy
  \/ Get_Lock
  \/ Get_Copy

\* ConfigManager(config_path) is about to be constructed, whatever the file
InitStore ==
  /\ InitCommon
  /\ config = NoConfig
  /\ mappings = NoConfig
  /\ load_pc = "start"
  /\ config_file \in ConfigFiles

\* The constructing thread goes on whenever it can; the other callers come
\* and go as they like.
SpecStore == InitStore /\ [][NextStore]_vars /\ WF_vars(LoadStep)

(***************************************************************************)
(* The HID report descriptor of SDP_RECORD_XML_TEMPLATE (attribute 0x0206), *)
(* read the way a host reads it: a sequence of short items, each a prefix   *)
(* byte (tag and type in the upper six bits, data size in the lower two)    *)
(* followed by its data bytes.                                              *)
(***************************************************************************)
\* the descriptor's bytes
ReportDescriptor ==
  <<5, 1, 9, 6, 161, 1, 5, 7, 25, 224, 41, 231, 21, 0, 37, 1, 117, 1, 149, 8,
    129, 2, 5, 7, 25, 0, 41, 101, 21, 0, 37, 101, 117, 8, 149, 6, 129, 0, 5, 8,
    25, 1, 41, 5, 117, 1, 149, 5, 145, 2, 117, 3, 149, 1, 145, 3, 192>>

RECURSIVE ParseDescriptor(_, _, _, _, _)
\* The items of d from position i on. Report Size (0x74) and Report Count
\* (0x94) set the globals; an Input item (0x80) declares report_count fields
\* of report_size bits in the input report, constant if bit 0 of its data is
\* set and an array if bit 1 is clear; Report ID (0x84) gives reports an ID
\* byte in front.
ParseDescriptor(d, i, report_size, report_count, acc) ==
  IF i > Len(d) THEN acc
  ELSE LET prefix == d[i]
           n == IF prefix % 4 = 3 THEN 4 ELSE prefix % 4
           tag == prefix - (prefix % 4)
           data == IF n = 0 THEN 0 ELSE d[i + 1]
       IN ParseDescriptor(d, i + 1 + n,
            IF tag = 116 THEN data ELSE report_size,
            IF tag = 148 THEN data ELSE report_count,
            IF tag = 128
            THEN [acc EXCEPT !.input =
                    Append(@, [size |-> report_size, count |-> report_count,
                               constant |-> data % 2 = 1,
                               array |-> (data \div 2) % 2 = 0])]
            ELSE IF tag = 132 THEN [acc EXCEPT !.report_id = TRUE]
            ELSE acc)

\* what the descriptor declares
DescriptorLayout ==
  ParseDescriptor(ReportDescriptor, 1, 0, 0, [input |-> <<>>, report_id |-> FALSE])

RECURSIVE FieldBits(_, _)
\* the bits the first n input fields take
FieldBits(fields, n) ==
  IF n = 0 THEN 0 ELSE FieldBits(fields, n - 1) + fields[n].size * fields[n].count

\* positions, among the input fields, of the arrays of key codes
KeyArrays ==
  {f \in DOMAIN DescriptorLayout.input :
     DescriptorLayout.input[f].array /\ ~DescriptorLayout.input[f].constant}

RECURSIVE ParseRanges(_, _, _, _, _)
\* The items of d from position i on, for the values of the fields: Logical
\* Minimum (0x14) and Logical Maximum (0x24) set the globals, and each Input
\* item (0x80) declares its fields to hold values from the minimum to the
\* maximum in force. The one-byte data of these items is unsigned here: the
\* descriptor has no value above 0x7F in them.
ParseRanges(d, i, logical_minimum, logical_maximum, acc) ==
  IF i > Len(d) THEN acc
  ELSE LET prefix == d[i]
           n == IF prefix % 4 = 3 THEN 4 ELSE prefix % 4
           tag == prefix - (prefix % 4)
           data == IF n = 0 THEN 0 ELSE d[i + 1]
       IN ParseRanges(d, i + 1 + n,
            IF tag = 20 THEN data ELSE logical_minimum,
            IF tag = 36 THEN data ELSE logical_maximum,
            IF tag = 128
            THEN Append(acc, [minimum |-> logical_minimum, maximum |-> logical_maximum])
            ELSE acc)

\* the range of values the descriptor declares for each input field
DescriptorRanges == ParseRanges(ReportDescriptor, 1, 0, 0, <<>>)

(***************************************************************************)
(* The pipeline under the default table with the knob: one host, the knob   *)
(* turned clockwise (a tap of VOLUME_UP) and the first top button.          *)
(***************************************************************************)
\* the triggers fired here
KnobEvents == {<<EV_REL, REL_DIAL, 1>>, <<EV_KEY, KEY_1, 1>>}

NextKnob ==
  \/ App_StartHid
  \/ App_StartInput
  \/ Run_FindAdapter(TRUE)
  \/ Run_Register(TRUE)
  \/ Run_MainLoop
  \/ NewConnection("/org/bluez/hci0/dev_1", "none", TRUE)
  \/ Tick_Begin
  \/ Tick_Loop
  \/ Tick_Finish(TRUE)
  \/ \E event \in KnobEvents : process_event(event)
  \/ process_event_tap_release

SpecKnob == Init /\ [][NextKnob]_vars

(***************************************************************************)
(* Properties.                                                             *)
(***************************************************************************)
\* the report with usage code 0x04 ("A") in the first key slot
ReportA == [EmptyReport EXCEPT ![3] = 4]

\* One host connected before any command was put, its descriptor still held;
\* since then exactly the Press["A"] and Release["A"] of one tap were put
\* and applied, and the drain callback has returned.
TapDrained ==
  /\ active_connection_profile # "None"
  /\ Len(fd_closes) = 1
  /\ interrupt_fd = 1
  /\ conn_at = 0
  /\ applied_log = <<[id |-> 1, type |-> "press", keys |-> <<"A">>],
                     [id |-> 2, type |-> "release", keys |-> <<"A">>]>>
  /\ command_queue = <<>>
  /\ input_pc = <<>>
  /\ drain_pc = "idle"

\* C1: with a host connected and an all-zero report, a Tap["A"] trigger puts
\* exactly two reports on the wire after the connection's initial zero report,
\* {0,0,4,0,0,0,0,0} and then all zeros, whatever the timing of the drain tick
\* relative to the two puts.
C1_TapSendsPressThenRelease ==
  TapDrained => wire = <<EmptyReport, ReportA, EmptyReport>>

\* C2: the first report written to the descriptor of every new connection is
\* the all-zero report, after any history of commands, connections and
\* disconnects.
C2_FirstReportIsEmpty ==
  wire # <<>> => wire[1] = EmptyReport

\* A second connection made after commands were put, with a report written to
\* it after the initial one.
C2_Witness ==
  /\ Len(fd_closes) = 2
  /\ interrupt_fd = 2
  /\ conn_at > 0
  /\ applied_log # <<>>
  /\ Len(wire) >= 2
  /\ wire[2] # EmptyReport

C4_OldConnectionTornDownFirst ==
  [][(/\ active_connection_profile # "None"
      /\ interrupt_fd # -1
      /\ active_connection_profile' # "None"
      /\ interrupt_fd' # -1
      /\ interrupt_fd' # interrupt_fd
      /\ device_path' # device_path)
     => (fd_closes'[interrupt_fd] = 1 /\ interrupt_fd \notin watches')]_vars

\* C5: every descriptor taken in NewConnection is closed exactly once: never
\* twice, and once by the time the profile no longer holds it.
C5_DescriptorClosedOnce ==
  \A fd \in DOMAIN fd_closes :
    /\ fd_closes[fd] <= 1
    /\ fd # interrupt_fd => fd_closes[fd] = 1

\* C6: after stop() was called while the reactor loop was running, run() does
\* not return before the active connection is cleaned up and the profile is
\* unregistered from BlueZ.
C6_StopRunsCleanup ==
  (mainloop_quit /\ hid_pc = "returned") =>
    /\ active_connection_profile = "None"
    /\ interrupt_fd = -1
    /\ ~bluez_registered

\* C7: when no adapter is found or the profile registration fails, the
\* process exits with a non-zero status: it is not left serving the web API
\* without a transport.
C7_StartFailureExits ==
  (start_failed /\ app_pc = "serving") => exit_code # "running"

\* C8: every event is dispatched against the table the store holds at that
\* moment, so the first event after an update already uses the new table.
C8_DispatchUsesStoreTable ==
  [][n_events' = n_events + 1 => mappings = config]_vars

\* C9: commands are applied to the report in the order they were put: the
\* i-th command applied is the i-th command put, so none is applied twice and
\* none overtakes an earlier one.
C9_AppliedInPutOrder ==
  \A i \in 1..Len(applied_log) : applied_log[i].id = i

\* Three commands from two different events applied, as many as were put.
C9_Witness ==
  /\ Len(applied_log) = 3
  /\ applied_log[1].keys # applied_log[3].keys
  /\ n_events = 2

\* C10 as stated: for at most six distinct non-modifier keys, in every
\* reachable report, Press(k) followed by Release(k) gives back the report
\* that Press(k) found.
C10_RoundTripAnyState ==
  round_trip.done => report_state = round_trip.before

\* C10, amended: for at most six distinct non-modifier keys, Press(k) followed
\* by Release(k) gives back the report that Press(k) found, provided k was not
\* already held in that report.
C10_RoundTripWhenNotHeld ==
  (round_trip.done /\ get_codes(round_trip.key)[2] \notin HeldCodes(round_trip.before))
    => report_state = round_trip.before

\* A round trip of a key that went into the hole between five held keys.
C10_Witness ==
  /\ round_trip.done
  /\ get_codes(round_trip.key)[2] # 0
  /\ get_codes(round_trip.key)[2] \notin HeldCodes(round_trip.before)
  /\ Cardinality(HeldCodes(round_trip.before)) = 5
  /\ round_trip.before[8] # 0
  /\ report_state = round_trip.before

\* C11: a press of a key that is not held, made while all six slots are
\* occupied, leaves the six slots as they were, and the dropped key is in no
\* slot afterwards, also once a release has freed a slot, until a new press
\* command for it is applied.
C11_DroppedPressIsLost ==
  /\ rollover.fresh => Slots(report_state) = Slots(rollover.before)
  /\ \A code \in rollover.dropped : code \notin HeldCodes(report_state)

\* A press was dropped, and releases have since freed two slots.
C11_Witness ==
  /\ rollover.dropped # {}
  /\ ~rollover.fresh
  /\ Cardinality(HeldCodes(report_state)) = 4

C13_WriteErrorIsConnectionLoss ==
  last_cleanup.write_failed =>
    /\ last_cleanup.ran
    /\ active_connection_profile = "None"
    /\ device_path = "None"
    /\ interrupt_fd = -1
    /\ interrupt_io_watch_id = 0
    /\ fd_closes[last_cleanup.fd] = 1
    /\ last_cleanup.fd \notin watches
    /\ report_state = EmptyReport
    /\ last_sent_report_state = EmptyReport
    /\ hid_pc = "mainloop"
    /\ tick_scheduled
    /\ bluez_registered
    /\ (drain_pc = "idle" /\ Len(fd_closes) < MaxConns) =>
         ENABLED NewConnection("/org/bluez/hci0/dev_1", "none", TRUE)

\* The write of a key report failed in a drain tick, after the connection's
\* initial report had been written.
C13_Witness ==
  /\ last_cleanup.write_failed
  /\ last_cleanup.fd = 1
  /\ wire # <<>>
  /\ applied_log # <<>>
  /\ drain_pc = "idle"

\* the input thread is running and holds no open handle for the path
Missing(path) ==
  /\ src_pc \notin {"not_started", "stopped"}
  /\ path \notin OpenPaths(handles, devices_map)

\* C14: whenever a configured device is not open and stop was not requested,
\* the loop eventually comes to a reconnection attempt (or stop is
\* requested), also while the other device is open.
C14_DroppedDeviceIsRetried ==
  \A path \in DevicePaths :
    [](Missing(path) /\ ~src_stop => <>(src_pc = "reconnect" \/ src_stop))

\* C15: once stop is requested the run loop terminates, and whenever it has
\* terminated the open-device map is empty and every handle it opened has
\* been closed, once.
C15_StopTerminatesAndCloses ==
  /\ (src_stop /\ src_pc # "not_started") ~> (src_pc = "stopped")
  /\ [](src_pc = "stopped" =>
          /\ devices_map = {}
          /\ \A i \in DOMAIN handles : handles[i].closes = 1)

\* The loop has terminated after opening handles on both devices and
\* reopening one of them.
C15_Witness ==
  /\ src_pc = "stopped"
  /\ src_stop
  /\ Len(handles) >= 3
  /\ {handles[i].path : i \in DOMAIN handles} = DevicePaths

\* C16: no device handle is opened once stop has been requested.
C16_NoOpenAfterStop ==
  ~opened_after_stop

\* C17: the loop never waits longer than one select timeout between two
\* examinations of the stop flag.
C17_StopSeenWithinOneWait ==
  waited <= SelectTimeout

\* the dispatch of the k-th event is over: a key_tap has made both puts
Dispatched(k) == k < Len(dispatch_log) \/ input_pc = <<>>

\* the commands put for the k-th event, in the order of the puts
Emitted(k) ==
  LET s == SelectSeq(put_log, LAMBDA c : c.ev = k)
  IN [i \in 1..Len(s) |-> <<s[i].type, s[i].keys>>]

\* the commands the mapping kind of a looked-up entry d calls for
KindCommands(d) ==
  CASE d.type = "key_press" -> << <<"press", d.keys>> >>
    [] d.type = "key_release" -> << <<"release", d.keys>> >>
    [] d.type = "key_tap" -> << <<"press", d.keys>>, <<"release", d.keys>> >>
    [] OTHER -> <<>>

\* the k-th event was resolved to an entry of the mapping table
Resolved(k) ==
  /\ dispatch_log[k].event[1] # EV_SYN
  /\ dispatch_log[k].action # "None"
  /\ dispatch_log[k].mapped

\* C18 as stated: every dispatched event resolved to a table entry puts the
\* commands of the entry's kind, whatever the entry's key sequence: one press,
\* one release, press then release with the same keys, or nothing.
C18_CommandsByKind ==
  \A k \in DOMAIN dispatch_log :
    Resolved(k) /\ Dispatched(k) => Emitted(k) = KindCommands(dispatch_log[k])

\* C18, amended: every dispatched event resolved to a table entry with a
\* non-empty key sequence puts the commands of the entry's kind; resolved to
\* an entry with an empty key sequence it puts no command.
C18_CommandsByKindNonEmptyKeys ==
  \A k \in DOMAIN dispatch_log :
    Resolved(k) /\ Dispatched(k) =>
      Emitted(k) = IF dispatch_log[k].keys = <<>> THEN <<>>
                   ELSE KindCommands(dispatch_log[k])

\* A key_tap and a key_press, both with keys, have been dispatched in full.
C18_Witness ==
  /\ Len(dispatch_log) = 2
  /\ input_pc = <<>>
  /\ \E k \in DOMAIN dispatch_log :
       /\ dispatch_log[k].type = "key_tap"
       /\ dispatch_log[k].keys # <<>>
       /\ Len(Emitted(k)) = 2
  /\ \E k \in DOMAIN dispatch_log :
       /\ dispatch_log[k].type = "key_press"
       /\ dispatch_log[k].keys # <<>>
       /\ Len(Emitted(k)) = 1

\* the i-th command put is the press of a key_tap
TapPress(i) ==
  /\ put_log[i].type = "press"
  /\ dispatch_log[put_log[i].ev].type = "key_tap"

\* C19: the command put right after the press of a key_tap is the release
\* of the same event with the same keys (or the release is the next put to
\* come); the queue holds commands in the order of their puts with none
\* missing in between; and the release is taken from the queue right after
\* the press, whenever the drain tick runs.
C19_TapBackToBack ==
  /\ \A i \in DOMAIN put_log :
       TapPress(i) =>
         IF i = Len(put_log) THEN input_pc = <<put_log[i].keys>>
         ELSE put_log[i + 1] = [id |-> put_log[i].id + 1, type |-> "release",
                                keys |-> put_log[i].keys, ev |-> put_log[i].ev]
  /\ \A j \in 1..(Len(command_queue) - 1) :
       command_queue[j + 1].id = command_queue[j].id + 1
  /\ \A p \in DOMAIN applied_log :
       (applied_log[p].id > 1 /\ TapPress(applied_log[p].id - 1)) =>
         (p > 1 /\ applied_log[p - 1].id = applied_log[p].id - 1)

\* Both commands of a key_tap were taken by the drain tick, the release
\* right after the press, and a command of the second event is in the queue.
C19_Witness ==
  /\ Len(put_log) >= 3
  /\ Len(applied_log) >= 2
  /\ \E p \in DOMAIN applied_log :
       /\ p > 1
       /\ TapPress(applied_log[p - 1].id)
       /\ applied_log[p].type = "release"
  /\ \E i \in DOMAIN put_log : put_log[i].ev = 2
  /\ command_queue # <<>>

\* a looked-up entry d is one the dispatcher drops: a SYN event, an event the
\* static table does not name, or an action the mapping table does not name
DroppedEntry(d) ==
  \/ d.event[1] = EV_SYN
  \/ d.action = "None"
  \/ ~d.mapped

\* C20: no command is ever put for a dropped event, and the step that
\* dispatches a dropped event leaves the queue, a pending second put and the
\* mapping table as they were.
C20_DroppedEventChangesNothing ==
  /\ [](\A k \in DOMAIN dispatch_log :
          DroppedEntry(dispatch_log[k]) => Emitted(k) = <<>>)
  /\ [][(dispatch_log' # dispatch_log
           /\ DroppedEntry(dispatch_log'[Len(dispatch_log')]))
          => UNCHANGED <<command_queue, n_put, put_log, input_pc, mappings, config>>]_vars

\* A SYN event and an action missing from the posted table were dispatched.
C20_Witness ==
  /\ \E k \in DOMAIN dispatch_log : dispatch_log[k].event[1] = EV_SYN
  /\ \E k \in DOMAIN dispatch_log :
       /\ dispatch_log[k].action # "None"
       /\ ~dispatch_log[k].mapped
  /\ put_log = <<>>

\* the names of the last command's key list that reached get_codes: the
\* entries before one that raises, neither empty nor "NONE"
ResolvedNames ==
  LET r == RaisesAt(last_cmd.keys)
      n == IF r = 0 THEN Len(last_cmd.keys) ELSE r - 1
  IN {last_cmd.keys[i] : i \in 1..n} \ {"", "NONE", "none"}

\* C21: every key name handed to get_codes that is not a name of the keycode
\* table resolves, without raising, to (MOD_NONE, 0x00), and a command that
\* names only such a key leaves the report as it found it.
C21_UnknownNameIsNoOp ==
  \A k \in ResolvedNames :
    Upper(k) \notin DOMAIN NAME_TO_CODE =>
      /\ ~UpperRaises(k)
      /\ get_codes(k) = <<MOD_NONE, 0>>
      /\ last_cmd.keys = <<k>> => report_state = last_cmd.before

\* A command naming only an unknown key was applied to a report that held a
\* key and a modifier.
C21_Witness ==
  /\ last_cmd.keys = <<"BOGUS">>
  /\ last_cmd.type = "press"
  /\ last_cmd.before[1] # 0
  /\ last_cmd.before[3] # 0

\* the entries of a key list that are strings
StringKeys(keys) == SelectSeq(keys, LAMBDA k : k \notin NonStringKeys)

\* C22: the drain applies every command it takes as if the entries that are
\* no key names were not in its list, and goes on with the loop, so that the
\* commands behind it are applied and the report is sent in the same tick.
C22_BadKeyEntriesAreNoOps ==
  [][applied_log' # applied_log =>
       LET command == applied_log'[Len(applied_log')] IN
       /\ report_state' = ApplyCommand(report_state,
                             [command EXCEPT !.keys = StringKeys(command.keys)])
       /\ drain_pc' = "loop"]_vars

\* the report with only the Left Ctrl bit set in the modifier byte
ReportCtrl == [EmptyReport EXCEPT ![1] = 1]

\* C23: under the default table the front button press puts exactly
\* Press[LEFT_CTRL] and its release exactly Release[LEFT_CTRL]; applied to the
\* all-zero report the press gives 01 00 00 00 00 00 00 00, and applied to
\* that report the release gives the all-zero report again.
C23_CtrlPressRelease ==
  /\ [](\A k \in DOMAIN dispatch_log :
          /\ dispatch_log[k].action = "front_button_press" =>
               Emitted(k) = << <<"press", <<"LEFT_CTRL">> >> >>
          /\ dispatch_log[k].action = "front_button_release" =>
               Emitted(k) = << <<"release", <<"LEFT_CTRL">> >> >>)
  /\ [][applied_log' # applied_log =>
          LET command == applied_log'[Len(applied_log')] IN
          /\ (command.keys = <<"LEFT_CTRL">> /\ command.type = "press"
                /\ report_state = EmptyReport) => report_state' = ReportCtrl
          /\ (command.keys = <<"LEFT_CTRL">> /\ command.type = "release"
                /\ report_state = ReportCtrl) => report_state' = EmptyReport]_vars

\* The press event and then the release event were fired with a host
\* connected: the host was sent the all-zero report, the Left Ctrl report and
\* the all-zero report, and the report is all-zero again.
C23_Witness ==
  /\ Len(dispatch_log) = 2
  /\ dispatch_log[1].action = "front_button_press"
  /\ dispatch_log[2].action = "front_button_release"
  /\ Len(applied_log) = 2
  /\ wire = <<EmptyReport, ReportCtrl, EmptyReport>>
  /\ report_state = EmptyReport

\* C24: a RequestDisconnection handled while no connection is registered, or
\* naming another device than the connected one, leaves the connection, the
\* descriptor, its watch and both reports as they were; one naming the
\* connected device runs the cleanup.
C24_MismatchedRequestIgnored ==
  [][\A dev \in Devices :
       RequestDisconnection(dev) =>
         IF active_connection_profile = "None" \/ device_path # dev
         THEN UNCHANGED <<active_connection_profile, interrupt_fd,
                          interrupt_io_watch_id, watches, fd_closes, wire,
                          report_state, last_sent_report_state>>
         ELSE /\ last_cleanup'.ran
              /\ active_connection_profile' = "None"
              /\ device_path' = "None"
              /\ interrupt_fd' = -1
              /\ interrupt_io_watch_id' = 0
              /\ report_state' = EmptyReport
              /\ last_sent_report_state' = EmptyReport]_vars

\* A request naming another device was handled while a host was connected
\* and a key was held: no cleanup ran, the descriptor is open and watched, the
\* key is still in the report.
C24_Witness ==
  /\ last_cleanup.request # ""
  /\ last_cleanup.request # device_path
  /\ ~last_cleanup.ran
  /\ active_connection_profile # "None"
  /\ interrupt_fd # -1
  /\ interrupt_io_watch_id \in watches
  /\ fd_closes[interrupt_fd] = 0
  /\ report_state # EmptyReport

\* C25: in every reachable report no non-zero usage code is in two of the
\* six key slots, whatever commands were applied and however often the
\* report was reset by a disconnect.
C25_NoCodeTwice ==
  \A i, j \in 3..8 :
    (i # j /\ report_state[i] # 0) => report_state[i] # report_state[j]

\* A press naming "A" twice was applied to a report that held "A" in the
\* second slot behind an empty first slot.
C25_Witness ==
  /\ last_cmd.type = "press"
  /\ last_cmd.keys = <<"A", "A">>
  /\ last_cmd.before[3] = 0
  /\ last_cmd.before[4] = 4
  /\ report_state[4] = 4

\* the last command named the single key k
LastKey(type, k) == last_cmd.type = type /\ last_cmd.keys = <<k>>

\* the key slots of report rs that are empty, and those that hold code
EmptySlots(rs) == {i \in 3..8 : rs[i] = 0}
SlotsWith(rs, code) == {i \in 3..8 : rs[i] = code}

\* the least member of a non-empty set of slot indices
Lowest(slots) == CHOOSE i \in slots : \A j \in slots : i <= j

\* C26: a press of a non-modifier key whose code is already in a slot leaves
\* the report unchanged; otherwise, if a slot is empty, the code is stored in
\* the lowest empty slot and nothing else changes.
C26_PressTakesLowestEmptySlot ==
  \A k \in KeyNames \ NonStringKeys :
    LET mask == get_codes(k)[1]
        code == get_codes(k)[2]
        before == last_cmd.before
    IN (LastKey("press", k) /\ mask = MOD_NONE /\ code # 0) =>
         IF SlotsWith(before, code) # {} THEN report_state = before
         ELSE EmptySlots(before) # {} =>
                report_state = [before EXCEPT ![Lowest(EmptySlots(before))] = code]

\* A key was pressed into a report whose first slot was empty and whose
\* second slot was held, and took the first slot.
C26_Witness ==
  /\ LastKey("press", "C")
  /\ last_cmd.before[3] = 0
  /\ last_cmd.before[4] # 0
  /\ report_state[3] = 6
  /\ report_state[4] = last_cmd.before[4]

\* C27: a release of a non-modifier key zeroes the first slot that holds its
\* code and changes nothing else, so the keys behind it stay where they are;
\* when no slot holds the code the report is unchanged.
C27_ReleaseZeroesInPlace ==
  \A k \in KeyNames \ NonStringKeys :
    LET mask == get_codes(k)[1]
        code == get_codes(k)[2]
        before == last_cmd.before
    IN (LastKey("release", k) /\ mask = MOD_NONE /\ code # 0) =>
         IF SlotsWith(before, code) = {} THEN report_state = before
         ELSE report_state = [before EXCEPT ![Lowest(SlotsWith(before, code))] = 0]

\* The key of the first slot was released while the second slot was held:
\* the first slot is empty and the second still holds its key.
C27_Witness ==
  /\ LastKey("release", "A")
  /\ last_cmd.before[3] = 4
  /\ last_cmd.before[4] = 5
  /\ report_state[3] = 0
  /\ report_state[4] = 5

\* the bits set in byte n
Bits(n) == {i \in 0..7 : (n \div (2 ^ i)) % 2 = 1}

\* C28: a press of a key with a modifier mask sets the bits of the mask in
\* the modifier byte and a release clears them, the other bits staying as
\* they were; a key with a mask and usage code 0x00 changes no key slot.
C28_ModifierBits ==
  \A k \in KeyNames \ NonStringKeys :
    LET mask == get_codes(k)[1]
        code == get_codes(k)[2]
        before == last_cmd.before
    IN (mask # MOD_NONE /\ last_cmd.keys = <<k>>) =>
         /\ last_cmd.type = "press" =>
              Bits(report_state[1]) = Bits(before[1]) \cup Bits(mask)
         /\ last_cmd.type = "release" =>
              Bits(report_state[1]) = Bits(before[1]) \ Bits(mask)
         /\ code = 0 => SubSeq(report_state, 2, 8) = SubSeq(before, 2, 8)

\* Left Ctrl was released while Left Shift and a key were held: only the
\* Left Ctrl bit went.
C28_Witness ==
  /\ LastKey("release", "left_ctrl")
  /\ last_cmd.before[1] = 3
  /\ last_cmd.before[3] # 0
  /\ report_state[1] = 2

\* C29: every report written to the descriptor has eight bytes, the second
\* of them 0x00, and is the report state as it stands when the write returns
\* (modifier byte, reserved byte, six slots with 0x00 in the empty ones),
\* with nothing in front of it; the report state always has eight bytes with
\* the reserved byte 0x00.
C29_EightBytesReservedZero ==
  /\ [](/\ Len(report_state) = 8
        /\ report_state[2] = 0
        /\ \A i \in DOMAIN wire :
             /\ Len(wire[i]) = 8
             /\ wire[i][2] = 0
             /\ \A b \in 1..8 : wire[i][b] \in 0..255)
  /\ [][(wire' # wire /\ wire' # <<>>) => wire'[Len(wire')] = report_state']_vars

\* After the all-zero report of the connection, a report with Left Ctrl and
\* then one with Left Ctrl and the key "A" were written.
C29_Witness ==
  /\ Len(wire) = 3
  /\ wire[2] = ReportCtrl
  /\ wire[3] = [ReportCtrl EXCEPT ![3] = 4]

\* C30: the registered descriptor declares an input report without report
\* ID of as many bytes as every report written, with one array of six key
\* codes of eight bits that starts at byte 2, so that the declared key bytes
\* are bytes 2-7 of the report written.
C30_DescriptorMatchesReport ==
  \A i \in DOMAIN wire :
    /\ ~DescriptorLayout.report_id
    /\ FieldBits(DescriptorLayout.input, Len(DescriptorLayout.input)) = 8 * Len(wire[i])
    /\ \E f \in KeyArrays :
         /\ KeyArrays = {f}
         /\ DescriptorLayout.input[f].size = 8
         /\ DescriptorLayout.input[f].count = 6
         /\ FieldBits(DescriptorLayout.input, f - 1) = 8 * 2

\* C31: a report written by the drain tick differs from the report written
\* before it on the same descriptor: the tick writes only when report_state
\* differs from last_sent_report_state, what it writes is report_state, and
\* the report written before it on that connection is last_sent_report_state.
C31_NoRedundantReport ==
  [][(drain_pc = "loop" /\ wire' # wire) =>
       /\ report_state # last_sent_report_state
       /\ wire' = Append(wire, report_state)
       /\ wire # <<>>
       /\ wire[Len(wire)] = last_sent_report_state
       /\ wire'[Len(wire')] # wire[Len(wire)]]_vars

\* On one connection the drain tick wrote the report with Left Ctrl held,
\* and a second press of Left Ctrl, which leaves the report as it was sent,
\* was applied without another write.
C31_Witness ==
  /\ interrupt_fd = 1
  /\ active_connection_profile # "None"
  /\ Len(applied_log) = 2
  /\ \A i \in 1..2 : applied_log[i].type = "press" /\ applied_log[i].keys = <<"LEFT_CTRL">>
  /\ command_queue = <<>>
  /\ drain_pc = "idle"
  /\ wire = <<EmptyReport, [EmptyReport EXCEPT ![1] = MOD_LEFT_CTRL]>>

\* a step of the input thread, of the thread calling stop() or of the thread
\* updating the mappings
OtherThreadStep ==
  \/ \E event \in ThreadsEvents : process_event(event)
  \/ process_event_tap_release
  \/ Stop_SetEvent
  \/ Stop_Quit
  \/ \E saved \in BOOLEAN : Admin_Update(AltConfig, saved)
  \/ Admin_Reload

\* a callback dispatched by the reactor loop, or the end of run() on the
\* thread that ran the loop
ReactorStep ==
  \/ NewConnection("/org/bluez/hci0/dev_1", "none", TRUE)
  \/ RequestDisconnection("/org/bluez/hci0/dev_1")
  \/ Tick_Loop
  \/ \E write_ok \in BOOLEAN : Tick_Finish(write_ok)
  \/ Run_Exit

\* C32: report_state and last_sent_report_state are touched only on the
\* reactor thread: no step of the input thread, of the thread that calls
\* stop() or of the thread that updates the mappings changes either of them,
\* and every step that changes one of them is a reactor callback (drain tick,
\* profile callback, channel event) or the cleanup at the end of run().
C32_ReportsOwnedByReactor ==
  [][/\ OtherThreadStep => UNCHANGED <<report_state, last_sent_report_state>>
     /\ ~UNCHANGED <<report_state, last_sent_report_state>> => ReactorStep]_vars

\* stop() has been called and has returned while a key was held and sent on
\* the connection, the mappings were replaced meanwhile, and the two reports
\* are as the reactor left them.
C32_Witness ==
  /\ app_pc = "stopped"
  /\ n_updates > 0
  /\ n_events > 0
  /\ active_connection_profile # "None"
  /\ report_state # EmptyReport
  /\ last_sent_report_state = report_state

\* a step that tears a connection down: the descriptor is forgotten or
\* closed, the watch removed or the active connection dropped
Teardown ==
  \/ interrupt_fd # -1 /\ interrupt_fd' # interrupt_fd
  \/ active_connection_profile # "None" /\ active_connection_profile' = "None"
  \/ \E fd \in DOMAIN fd_closes : fd_closes'[fd] # fd_closes[fd]
  \/ \E w \in watches : w \notin watches'

\* C33: a connection is torn down only between drain ticks, or by the tick
\* itself when its own send fails; while a tick is under way no other step
\* touches the connection, whatever the input thread and stop() do meanwhile.
C33_TeardownNotDuringTick ==
  [][/\ Teardown =>
          \/ drain_pc = "idle"
          \/ Tick_Finish(FALSE) /\ last_cleanup'.ran /\ last_cleanup'.write_failed
     /\ (drain_pc = "loop" /\ ~Tick_Finish(FALSE)) =>
          UNCHANGED <<active_connection_profile, device_path, interrupt_fd,
                      interrupt_io_watch_id, fd_closes, watches>>]_vars

\* A disconnect request tore the connection down between two ticks: one
\* command had been applied by a tick that returned, another is still queued.
C33_Witness ==
  /\ last_cleanup.ran
  /\ last_cleanup.connected
  /\ last_cleanup.request = "/org/bluez/hci0/dev_1"
  /\ ~last_cleanup.write_failed
  /\ Len(applied_log) = 1
  /\ command_queue # <<>>
  /\ drain_pc = "idle"

\* the tables the store can hold once constructed: a table read from the
\* file with the missing defaults added, or a posted table
InstalledTables == Tables \cup {merge_defaults(t) : t \in Tables}

\* C34: a caller of get_mappings obtains the whole table the store holds at
\* that moment, the one before a concurrent update or the one after it, never
\* entries of both; and update_mappings installs exactly the posted table, so
\* that no entry of the table before survives unless the posted one has it.
C34_WholeTableSwapped ==
  /\ [](/\ got # <<>> => got[1] \in InstalledTables
        /\ load_pc = "done" => mappings \in InstalledTables /\ config \in InstalledTables)
  /\ [][/\ got' # got => got' = <<config>> /\ config' = config
        /\ mappings' # mappings => mappings' = config /\ config' = config
        /\ Set_Assign => /\ config' = posted_mappings[1]
                         /\ DOMAIN config' = DOMAIN posted_mappings[1]]_vars

\* A second caller obtained the posted table while the update call that
\* installed it was still writing the file; the dispatcher still has the
\* table from before.
C34_Witness ==
  /\ admin_pc = "save_locked"
  /\ posted_mappings = <<AltConfig>>
  /\ config = AltConfig
  /\ got = <<AltConfig>>
  /\ mappings = DefaultConfig

\* C35: the construction of ConfigManager comes to an end whatever is at
\* config_path: load_config returns.
C35_LoadConfigTerminates == <>(load_pc \in {"loaded", "done"})

\* C36: once stop() has been called and has returned, run() returns, at
\* whatever point of run() the call came.
C36_StopEndsRun == (app_pc = "stopped") ~> (hid_pc = "returned")

\* C37: whenever no update call is under way, the table the dispatcher
\* resolves events against is the table the store returns.
C37_TablesAgreeAtRest ==
  admin_pc = "idle" => mappings = get_mappings(config)

\* C38: when a drain tick that took commands returns and a host is
\* connected, the report sent last is the report state, also when one of the
\* tick's commands raised part-way.
C38_SentMatchesStateAfterTick ==
  [][(drain_pc = "loop" /\ drain_pc' = "idle" /\ active_connection_profile' # "None")
       => last_sent_report_state' = report_state']_vars

\* C39: the service has an active connection exactly when the profile holds
\* a descriptor that is open, with its watch registered with the reactor, and
\* a device path.
C39_ActiveIffDescriptor ==
  (active_connection_profile # "None") <=>
    /\ interrupt_fd # -1
    /\ interrupt_fd \in DOMAIN fd_closes
    /\ fd_closes[interrupt_fd] = 0
    /\ interrupt_io_watch_id \in watches
    /\ device_path # "None"

\* C40: every usage code in a key slot of a report written to the host lies
\* within the range of values the registered descriptor declares for its
\* array of key codes.
C40_KeyCodesInDeclaredRange ==
  \A i \in DOMAIN wire, k \in 3..8, f \in KeyArrays :
    /\ wire[i][k] >= DescriptorRanges[f].minimum
    /\ wire[i][k] <= DescriptorRanges[f].maximum

====
